---- MODULE Spec2Model ----
(***************************************************************************)
(* Outreach sync webhook of gensales-service: the contact matcher cascade, *)
(* the contact merger (create / merge / activity) and the                  *)
(* connection-accepted handler, over an abstract contact store.            *)
(*                                                                         *)
(* Strings are sequences of tokens, so that concatenation, case folding,   *)
(* whitespace splitting and the URL regular expressions are computed.      *)
(***************************************************************************)
EXTENDS Integers, Sequences, FiniteSets, TLC

VARIABLES
  webhookSecret,  \* OutreachSyncController.webhookSecret
  uniqueUrn,      \* whether crm.contacts has a unique index on organization and urn
  contacts,       \* crm.contacts
  activities,     \* crm.activities
  clock,          \* requests served so far; the time new Date() reads
  last,           \* the last webhook request and its response
  twice,          \* the last request repeated the one before it (see below)
  call,           \* the last direct service call and what it returned
  procs           \* the deliveries in flight

vars == <<webhookSecret, uniqueUrn, contacts, activities, clock, last, twice, call, procs>>

-----------------------------------------------------------------------------
(* JavaScript values *)

Undefined == <<"<undefined>">>
Null == <<"<null>">>
EmptyStr == <<>>
UndefinedArr == <<Undefined>>
EmptyArr == <<>>

\* truthiness of a string-or-null-or-undefined value
Truthy(v) == v # Undefined /\ v # Null /\ v # EmptyStr

\* a || b on such values
Or(a, b) == IF Truthy(a) THEN a ELSE b

\* a || b where a is an array or undefined (every array is truthy)
OrArr(a, b) == IF a # UndefinedArr THEN a ELSE b

LowerTok(t) ==
  CASE t = "Ada" -> "ada"
    [] t = "X.com" -> "x.com"
    [] t = "LinkedIn.com" -> "linkedin.com"
    [] OTHER -> t

\* String.prototype.toLowerCase
ToLowerCase(s) == [i \in DOMAIN s |-> LowerTok(s[i])]

\* email?.toLowerCase()
OptLower(e) == IF e = Undefined THEN Undefined ELSE ToLowerCase(e)

-----------------------------------------------------------------------------
(* LinkedIn URLs *)

\* tokens that contain one of the characters / ? #
DelimToks == {"https://", "http://", "/in/", "/sales/lead/", "/sales/people/",
              "/company/", "/", "?trk=1"}

CanonicalPrefix == <<"https://", "www.", "linkedin.com", "/in/">>

\* the longest run of tokens free of / ? # that starts at position i
RECURSIVE RunFrom(_, _)
RunFrom(s, i) ==
  IF i > Len(s) \/ s[i] \in DelimToks THEN <<>>
  ELSE <<s[i]>> \o RunFrom(s, i + 1)

\* positions where /linkedin\.com<path>([^/?#]+)/i matches
MatchPositions(s, path) ==
  {i \in 1..Len(s) : /\ i + 2 <= Len(s)
                     /\ LowerTok(s[i]) = "linkedin.com"
                     /\ s[i + 1] = path
                     /\ s[i + 2] \notin DelimToks}

Min(S) == CHOOSE x \in S : \A y \in S : x <= y

\* match[1] of the leftmost match
Capture(s, path) == RunFrom(s, Min(MatchPositions(s, path)) + 2)

\* normalizeLinkedInUrl rewriting to the host without www.
MatcherNormalizeNoWww(profileUrl, publicId) ==
  IF Truthy(publicId) THEN <<"https://", "linkedin.com", "/in/">> \o publicId
  ELSE IF ~Truthy(profileUrl) THEN Null
  ELSE IF MatchPositions(profileUrl, "/in/") # {}
         THEN <<"https://", "linkedin.com", "/in/">> \o Capture(profileUrl, "/in/")
  ELSE profileUrl

\* ContactMatcherService.normalizeLinkedInUrl
MatcherNormalizeLinkedInUrl(profileUrl, publicId) ==
  IF Truthy(publicId) THEN CanonicalPrefix \o publicId
  ELSE IF ~Truthy(profileUrl) THEN Null
  ELSE IF MatchPositions(profileUrl, "/in/") # {}
         THEN CanonicalPrefix \o Capture(profileUrl, "/in/")
  ELSE IF MatchPositions(profileUrl, "/sales/lead/") # {}
         THEN CanonicalPrefix \o Capture(profileUrl, "/sales/lead/")
  ELSE IF MatchPositions(profileUrl, "/sales/people/") # {}
         THEN CanonicalPrefix \o Capture(profileUrl, "/sales/people/")
  ELSE profileUrl

\* ContactMergerService.normalizeLinkedInUrl
MergerNormalizeLinkedInUrl(profileUrl, publicId) ==
  IF Truthy(publicId) THEN CanonicalPrefix \o publicId
  ELSE IF ~Truthy(profileUrl) THEN Null
  ELSE IF MatchPositions(profileUrl, "/in/") # {}
         THEN CanonicalPrefix \o Capture(profileUrl, "/in/")
  ELSE profileUrl

\* ContactMatcherService.getLinkedInUrlVariations, as the set of the list
GetLinkedInUrlVariations(url) ==
  {url} \cup
  (IF MatchPositions(url, "/in/") = {} THEN {}
   ELSE LET publicId == Capture(url, "/in/") IN
        { <<"https://", "www.", "linkedin.com", "/in/">> \o publicId,
          <<"https://", "linkedin.com", "/in/">> \o publicId,
          <<"http://", "www.", "linkedin.com", "/in/">> \o publicId,
          <<"http://", "linkedin.com", "/in/">> \o publicId,
          <<"https://", "www.", "linkedin.com", "/in/">> \o publicId \o <<"/">>,
          <<"linkedin.com", "/in/">> \o publicId })

-----------------------------------------------------------------------------
(* Names *)

IsWs(t) == t \in {" ", "  "}

RECURSIVE TrimStart(_)
TrimStart(s) == IF s # <<>> /\ IsWs(Head(s)) THEN TrimStart(Tail(s)) ELSE s

RECURSIVE TrimEnd(_)
TrimEnd(s) ==
  IF s # <<>> /\ IsWs(s[Len(s)]) THEN TrimEnd(SubSeq(s, 1, Len(s) - 1)) ELSE s

\* String.prototype.trim
Trim(s) == TrimEnd(TrimStart(s))

\* s.split(/\s+/): acc is the list so far, cur the part being read
RECURSIVE SplitFrom(_, _, _, _)
SplitFrom(s, i, acc, cur) ==
  IF i > Len(s) THEN Append(acc, cur)
  ELSE IF IsWs(s[i])
    THEN IF i > 1 /\ IsWs(s[i - 1]) THEN SplitFrom(s, i + 1, acc, cur)
         ELSE SplitFrom(s, i + 1, Append(acc, cur), <<>>)
  ELSE SplitFrom(s, i + 1, acc, Append(cur, s[i]))

SplitWs(s) == SplitFrom(s, 1, <<>>, <<>>)

\* parts.join(' ')
RECURSIVE JoinSpace(_)
JoinSpace(parts) ==
  IF parts = <<>> THEN <<>>
  ELSE IF Len(parts) = 1 THEN parts[1]
  ELSE parts[1] \o <<" ">> \o JoinSpace(Tail(parts))

\* ContactMergerService.parseName
ParseName(fullName, firstName, lastName) ==
  IF Truthy(firstName) /\ Truthy(lastName)
    THEN [firstName |-> firstName, lastName |-> lastName]
  ELSE LET parts == SplitWs(Trim(fullName)) IN
       IF Len(parts) = 1 THEN [firstName |-> parts[1], lastName |-> EmptyStr]
       ELSE [firstName |-> parts[1], lastName |-> JoinSpace(Tail(parts))]

-----------------------------------------------------------------------------
(* The contact store: crm.contacts as a sequence, a contact's id its index *)

NoCustomFields ==
  [linkedinUrnId |-> Undefined, linkedinPublicId |-> Undefined,
   linkedinConnected |-> Undefined, linkedinHeadline |-> Undefined,
   linkedinLocation |-> Undefined, linkedinProfilePhoto |-> Undefined,
   linkedinIndustry |-> Undefined, linkedinSkills |-> UndefinedArr,
   linkedinLanguages |-> UndefinedArr, linkedinWorkExperience |-> Undefined,
   linkedinEducation |-> Undefined, syncedFromOutreach |-> Undefined,
   lastSyncedAt |-> 0, userNote |-> Undefined]

\* the columns the matcher selects
ExistingData(store, i) ==
  [id |-> i,
   firstName |-> store[i].firstName,
   lastName |-> store[i].lastName,
   email |-> store[i].email,
   linkedinUrl |-> store[i].linkedinUrl,
   customFields |-> store[i].customFields]

NoExistingData ==
  [id |-> 0, firstName |-> Undefined, lastName |-> Undefined, email |-> Undefined,
   linkedinUrl |-> Undefined, customFields |-> NoCustomFields]

\* a lookup's outcome: the rows the query may return (none: null), or a throw
Rows(S) == [thrown |-> FALSE, hits |-> S]
Throws == [thrown |-> TRUE, hits |-> {}]

\* matchByUrnId reading the public id where it should read the urn
MatchByUrnIdWrongKey(store, organizationId, urnId, fail) ==
  IF fail THEN Rows({})
  ELSE Rows({i \in DOMAIN store :
               /\ store[i].organizationId = organizationId
               /\ store[i].customFields.linkedinPublicId = urnId})

\* matchByUrnId without its try/catch
MatchByUrnIdUncaught(store, organizationId, urnId, fail) ==
  IF fail THEN Throws
  ELSE Rows({i \in DOMAIN store :
               /\ store[i].organizationId = organizationId
               /\ store[i].customFields.linkedinUrnId = urnId})

\* matchByUrnId without the organization in its where clause
MatchByUrnIdAnyOrg(store, organizationId, urnId, fail) ==
  IF fail THEN Rows({})
  ELSE Rows({i \in DOMAIN store : store[i].customFields.linkedinUrnId = urnId})

\* ContactMatcherService.matchByUrnId
MatchByUrnId(store, organizationId, urnId, fail) ==
  IF fail THEN Rows({})
  ELSE Rows({i \in DOMAIN store :
               /\ store[i].organizationId = organizationId
               /\ store[i].customFields.linkedinUrnId = urnId})

\* ContactMatcherService.matchByLinkedInUrl
MatchByLinkedInUrl(store, organizationId, linkedinUrl, fail) ==
  IF fail THEN Rows({})
  ELSE Rows({i \in DOMAIN store :
               /\ store[i].organizationId = organizationId
               /\ store[i].linkedinUrl \in GetLinkedInUrlVariations(linkedinUrl)})

\* ContactMatcherService.matchByEmail
MatchByEmail(store, organizationId, email, fail) ==
  IF fail THEN Rows({})
  ELSE Rows({i \in DOMAIN store :
               /\ store[i].organizationId = organizationId
               /\ store[i].email = ToLowerCase(email)})

MatchFound(store, i, kind) ==
  [thrown |-> FALSE, found |-> TRUE, contact_id |-> i, match_type |-> kind,
   existing_data |-> ExistingData(store, i)]

MatchNew ==
  [thrown |-> FALSE, found |-> FALSE, contact_id |-> 0, match_type |-> "NEW",
   existing_data |-> NoExistingData]

MatchThrown ==
  [thrown |-> TRUE, found |-> FALSE, contact_id |-> 0, match_type |-> "<undefined>",
   existing_data |-> NoExistingData]

\* the third cascade step and the fall-through of findMatch
FindMatchEmail(store, organizationId, c, f) ==
  IF ~Truthy(c.email) THEN {MatchNew}
  ELSE LET emailMatch == MatchByEmail(store, organizationId, c.email, f.email) IN
       IF emailMatch.thrown THEN {MatchThrown}
       ELSE IF emailMatch.hits # {}
         THEN {MatchFound(store, i, "EMAIL") : i \in emailMatch.hits}
       ELSE {MatchNew}

\* the second cascade step of findMatch
FindMatchUrl(store, organizationId, c, f) ==
  LET normalizedUrl == MatcherNormalizeLinkedInUrl(c.profile_url, c.public_id) IN
  IF ~Truthy(normalizedUrl) THEN FindMatchEmail(store, organizationId, c, f)
  ELSE LET urlMatch == MatchByLinkedInUrl(store, organizationId, normalizedUrl, f.url) IN
       IF urlMatch.thrown THEN {MatchThrown}
       ELSE IF urlMatch.hits # {}
         THEN {MatchFound(store, i, "LINKEDIN_URL") : i \in urlMatch.hits}
       ELSE FindMatchEmail(store, organizationId, c, f)

\* findMatch trying the URL and email steps before the URN step
FindMatchUrnLast(store, organizationId, c, f) ==
  LET later == FindMatchUrl(store, organizationId, c, f)
      urnMatch == MatchByUrnId(store, organizationId, c.urn_id, f.urn)
  IN IF later # {MatchNew} THEN later
     ELSE IF urnMatch.hits # {}
       THEN {MatchFound(store, i, "URN_ID") : i \in urnMatch.hits}
     ELSE {MatchNew}

\* ContactMatcherService.findMatch: the results the call may return
FindMatch(store, organizationId, c, f) ==
  LET urnMatch == MatchByUrnId(store, organizationId, c.urn_id, f.urn) IN
  IF urnMatch.thrown THEN {MatchThrown}
  ELSE IF urnMatch.hits # {}
    THEN {MatchFound(store, i, "URN_ID") : i \in urnMatch.hits}
  ELSE FindMatchUrl(store, organizationId, c, f)

-----------------------------------------------------------------------------
(* ContactMergerService *)

NoResult ==
  [success |-> FALSE, action |-> "<none>", contact_id |-> 0,
   match_type |-> "<undefined>", message |-> Undefined, error |-> Undefined]

Skipped(err) ==
  [success |-> FALSE, action |-> "skipped", contact_id |-> 0,
   match_type |-> "<undefined>", message |-> Undefined, error |-> err]

\* a service call's outcome: the store it leaves and what it returns or throws
Returned(store, result) == [thrown |-> FALSE, store |-> store, result |-> result]
Thrown(store, err) == [thrown |-> TRUE, store |-> store, result |-> Skipped(err)]

\* a catch block that rethrows
Rethrown(store, err) == Thrown(store, err)

\* the catch blocks of createContact and mergeContact
CaughtError(store, err) == Returned(store, Skipped(err))

\* prisma.contact.create with a unique index on the stored urn
CreateRejectedIfUrnTaken(store, row) ==
  \E i \in DOMAIN store :
    /\ store[i].organizationId = row.organizationId
    /\ store[i].customFields.linkedinUrnId = row.customFields.linkedinUrnId

\* prisma.contact.create refuses the row: only where the table has the
\* unique index, which the code does not rely on
CreateRejected(store, row) ==
  uniqueUrn /\ CreateRejectedIfUrnTaken(store, row)

\* prisma.contact.update refuses the data: where the table has the unique
\* index and another contact of the organization holds the urn
UpdateRejected(store, id, linkedinUrnId) ==
  /\ uniqueUrn
  /\ \E j \in DOMAIN store :
       /\ j # id
       /\ store[j].organizationId = store[id].organizationId
       /\ store[j].customFields.linkedinUrnId = linkedinUrnId

\* fullName.trim() on a missing name raises a TypeError
ParseNameThrows(c) ==
  /\ ~(Truthy(c.first_name) /\ Truthy(c.last_name))
  /\ c.name \in {Undefined, Null}

\* the row prisma.contact.create inserts
NewContactRow(organizationId, c, now) ==
  LET n == ParseName(c.name, c.first_name, c.last_name) IN
  [organizationId |-> organizationId,
   firstName |-> n.firstName,
   lastName |-> n.lastName,
   email |-> Or(OptLower(c.email), Null),
   phone |-> Or(c.phone, Null),
   jobTitle |-> Or(c.job_title, Null),
   linkedinUrl |-> MergerNormalizeLinkedInUrl(c.profile_url, c.public_id),
   profileImageUrl |-> Or(c.profile_pic_url, Null),
   isLead |-> TRUE,
   leadSource |-> "LINKEDIN_OUTREACH",
   leadStatus |-> "NEW",
   owner |-> "<null>",
   priority |-> "<null>",
   customFields |->
     [linkedinUrnId |-> c.urn_id,
      linkedinPublicId |-> c.public_id,
      linkedinConnected |-> c.connected_on,
      linkedinHeadline |-> c.headline,
      linkedinLocation |-> c.location,
      linkedinProfilePhoto |-> c.profile_pic_url,
      linkedinIndustry |-> c.industry,
      linkedinSkills |-> OrArr(c.skills, EmptyArr),
      linkedinLanguages |-> OrArr(c.languages, EmptyArr),
      linkedinWorkExperience |-> c.work_experience,
      linkedinEducation |-> c.education,
      syncedFromOutreach |-> <<"true">>,
      lastSyncedAt |-> now,
      userNote |-> Undefined]]

\* ContactMergerService.createContact
CreateContact(store, organizationId, c, now, fail) ==
  IF ParseNameThrows(c) THEN CaughtError(store, <<"TypeError">>)
  ELSE IF fail \/ CreateRejected(store, NewContactRow(organizationId, c, now))
    THEN CaughtError(store, <<"contact.create failed">>)
  ELSE LET row == NewContactRow(organizationId, c, now) IN
       Returned(Append(store, row),
                [success |-> TRUE, action |-> "created",
                 contact_id |-> Len(store) + 1, match_type |-> "NEW",
                 message |-> <<"Created new contact: ">> \o row.firstName
                               \o <<" ">> \o row.lastName,
                 error |-> Undefined])

\* customFields merged by the only-if-empty rule of the basic fields
MergedCustomFieldsIfEmpty(existingCustomFields, c, now) ==
  [existingCustomFields EXCEPT
     !.linkedinUrnId = c.urn_id,
     !.linkedinPublicId = c.public_id,
     !.linkedinConnected = c.connected_on,
     !.linkedinHeadline = Or(@, c.headline),
     !.linkedinLocation = Or(@, c.location),
     !.linkedinProfilePhoto = c.profile_pic_url,
     !.linkedinIndustry = Or(@, c.industry),
     !.linkedinSkills = OrArr(@, OrArr(c.skills, EmptyArr)),
     !.linkedinLanguages = OrArr(@, OrArr(c.languages, EmptyArr)),
     !.linkedinWorkExperience = Or(@, c.work_experience),
     !.linkedinEducation = Or(@, c.education),
     !.syncedFromOutreach = <<"true">>,
     !.lastSyncedAt = now]

\* customFields of mergeContact's update: the snapshot overlaid with the record
MergedCustomFields(existingCustomFields, c, now) ==
  [existingCustomFields EXCEPT
     !.linkedinUrnId = c.urn_id,
     !.linkedinPublicId = c.public_id,
     !.linkedinConnected = c.connected_on,
     !.linkedinHeadline = c.headline,
     !.linkedinLocation = c.location,
     !.linkedinProfilePhoto = c.profile_pic_url,
     !.linkedinIndustry = c.industry,
     !.linkedinSkills = OrArr(c.skills, OrArr(existingCustomFields.linkedinSkills, EmptyArr)),
     !.linkedinLanguages =
        OrArr(c.languages, OrArr(existingCustomFields.linkedinLanguages, EmptyArr)),
     !.linkedinWorkExperience =
        Or(c.work_experience, existingCustomFields.linkedinWorkExperience),
     !.linkedinEducation = Or(c.education, existingCustomFields.linkedinEducation),
     !.syncedFromOutreach = <<"true">>,
     !.lastSyncedAt = now]

\* the basic fields overwritten whatever is stored
MergedBasicFieldsAlways(existing, c, forceUpdate, currentJobTitle) ==
  LET n == ParseName(c.name, c.first_name, c.last_name) IN
  [firstName |-> n.firstName,
   lastName |-> n.lastName,
   email |-> Or(OptLower(c.email), existing.email),
   jobTitle |-> c.job_title]

\* the basic fields of updateData; Undefined marks a field the update leaves alone
MergedBasicFields(existing, c, forceUpdate, currentJobTitle) ==
  LET n == ParseName(c.name, c.first_name, c.last_name) IN
  [firstName |-> IF forceUpdate \/ ~Truthy(existing.firstName)
                   THEN n.firstName ELSE Undefined,
   lastName |-> IF forceUpdate \/ ~Truthy(existing.lastName)
                  THEN n.lastName ELSE Undefined,
   email |-> IF forceUpdate \/ ~Truthy(existing.email)
               THEN Or(OptLower(c.email), existing.email) ELSE Undefined,
   jobTitle |-> IF forceUpdate \/ ~Truthy(currentJobTitle)
                  THEN c.job_title ELSE Undefined]

\* updateData as mergeContact builds it
UpdateData(existing, c, forceUpdate, currentJobTitle, now) ==
  LET basic == MergedBasicFields(existing, c, forceUpdate, currentJobTitle) IN
  [profileImageUrl |-> Or(c.profile_pic_url, existing.linkedinUrl),
   linkedinUrl |-> Or(MergerNormalizeLinkedInUrl(c.profile_url, c.public_id),
                      existing.linkedinUrl),
   firstName |-> basic.firstName,
   lastName |-> basic.lastName,
   email |-> basic.email,
   jobTitle |-> basic.jobTitle,
   customFields |-> MergedCustomFields(existing.customFields, c, now)]

\* one column of prisma.contact.update: undefined leaves the column alone
SetColumn(current, value) == IF value = Undefined THEN current ELSE value

\* an update that also writes the lead status, as the create does
UpdateContactResetsLead(store, id, data) ==
  [store EXCEPT ![id] =
     [@ EXCEPT !.profileImageUrl = SetColumn(@, data.profileImageUrl),
               !.linkedinUrl = SetColumn(@, data.linkedinUrl),
               !.firstName = SetColumn(@, data.firstName),
               !.lastName = SetColumn(@, data.lastName),
               !.email = SetColumn(@, data.email),
               !.jobTitle = SetColumn(@, data.jobTitle),
               !.leadStatus = "NEW",
               !.customFields = data.customFields]]

\* an update whose where clause selects every contact of the organization
UpdateContactOfOrganization(store, id, data) ==
  [i \in DOMAIN store |->
     IF store[i].organizationId # store[id].organizationId THEN store[i]
     ELSE [store[i] EXCEPT !.profileImageUrl = SetColumn(@, data.profileImageUrl),
                           !.linkedinUrl = SetColumn(@, data.linkedinUrl),
                           !.firstName = SetColumn(@, data.firstName),
                           !.lastName = SetColumn(@, data.lastName),
                           !.email = SetColumn(@, data.email),
                           !.jobTitle = SetColumn(@, data.jobTitle),
                           !.customFields = data.customFields]]

\* prisma.contact.update({ where: { id }, data })
UpdateContact(store, id, data) ==
  [store EXCEPT ![id] =
     [@ EXCEPT !.profileImageUrl = SetColumn(@, data.profileImageUrl),
               !.linkedinUrl = SetColumn(@, data.linkedinUrl),
               !.firstName = SetColumn(@, data.firstName),
               !.lastName = SetColumn(@, data.lastName),
               !.email = SetColumn(@, data.email),
               !.jobTitle = SetColumn(@, data.jobTitle),
               !.customFields = data.customFields]]

MergeMessage(c) ==
  LET n == ParseName(c.name, c.first_name, c.last_name) IN
  <<"Updated existing contact: ">> \o n.firstName \o <<" ">> \o n.lastName

\* what mergeContact returns after its update
Updated(matchResult, c) ==
  [success |-> TRUE, action |-> "updated", contact_id |-> matchResult.contact_id,
   match_type |-> matchResult.match_type, message |-> MergeMessage(c),
   error |-> Undefined]

\* ContactMergerService.mergeContact
MergeContact(store, matchResult, c, forceUpdate, now, failRead, failUpdate) ==
  IF matchResult.contact_id = 0 \/ matchResult.existing_data = NoExistingData
    THEN Returned(store, Skipped(<<"No existing contact to merge with">>))
  ELSE IF ParseNameThrows(c) THEN CaughtError(store, <<"TypeError">>)
  ELSE IF failRead THEN CaughtError(store, <<"contact.findUnique failed">>)
  ELSE IF failUpdate \/ matchResult.contact_id \notin DOMAIN store
    THEN CaughtError(store, <<"contact.update failed">>)
  ELSE IF UpdateRejected(store, matchResult.contact_id, c.urn_id)
    THEN CaughtError(store, <<"Unique constraint failed">>)
  ELSE LET id == matchResult.contact_id
           data == UpdateData(matchResult.existing_data, c, forceUpdate,
                              store[id].jobTitle, now)
       IN Returned(UpdateContact(store, id, data), Updated(matchResult, c))

\* what createSyncActivity leaves: the activities, and whether it threw
Logged(acts) == [thrown |-> FALSE, acts |-> acts]

\* createSyncActivity without its try/catch
CreateSyncActivityUncaught(acts, organizationId, contactId, action, c, fail) ==
  IF fail THEN [thrown |-> TRUE, acts |-> acts]
  ELSE Logged(Append(acts,
              [organizationId |-> organizationId, contactId |-> contactId,
               type |-> "NOTE",
               title |-> IF action = "created"
                           THEN "Contact created from LinkedIn connection"
                           ELSE "Contact updated from LinkedIn sync",
               connectionId |-> c.id]))

\* createSyncActivity putting the new activity in front of the log
CreateSyncActivityPrepended(acts, organizationId, contactId, action, c, fail) ==
  IF fail THEN Logged(acts)
  ELSE Logged(<<[organizationId |-> organizationId, contactId |-> contactId,
                 type |-> "NOTE",
                 title |-> IF action = "created"
                             THEN "Contact created from LinkedIn connection"
                             ELSE "Contact updated from LinkedIn sync",
                 connectionId |-> c.id]>> \o acts)

\* ContactMergerService.createSyncActivity
CreateSyncActivity(acts, organizationId, contactId, action, c, fail) ==
  IF fail THEN Logged(acts)
  ELSE Logged(Append(acts,
              [organizationId |-> organizationId, contactId |-> contactId,
               type |-> "NOTE",
               title |-> IF action = "created"
                           THEN "Contact created from LinkedIn connection"
                           ELSE "Contact updated from LinkedIn sync",
               connectionId |-> c.id]))

-----------------------------------------------------------------------------
(* Webhook payloads: schema and secret *)

\* a JSON value that is not a string
NotString == <<"<number>">>

IsString(v) == v \notin {Undefined, Null, NotString}

UuidToks == {"0a000000-0000-4000-8000-00000000000a",
             "0b000000-0000-4000-8000-00000000000b",
             "0c000000-0000-4000-8000-00000000000c",
             "0d000000-0000-4000-8000-00000000000d"}

DatetimeToks == {"2024-01-01T00:00:00Z", "2024-02-02T00:00:00Z"}

\* z.string().uuid()
IsUuid(v) == IsString(v) /\ Len(v) = 1 /\ v[1] \in UuidToks

\* z.string().datetime()
IsDatetime(v) == IsString(v) /\ Len(v) = 1 /\ v[1] \in DatetimeToks

\* z.string().email()
IsEmail(v) ==
  /\ IsString(v) /\ Len(v) = 3 /\ v[2] = "@"
  /\ v[1] \notin DelimToks \cup {"@", " ", "  "}
  /\ v[3] \notin DelimToks \cup {"@", " ", "  "}

Optional(v, ok) == v = Undefined \/ ok

IsStringArray(a) == a # UndefinedArr /\ \A i \in DOMAIN a : IsString(a[i])

\* the connection object of ConnectionAcceptedPayloadSchema
ConnectionSchema(c) ==
  /\ IsUuid(c.id)
  /\ IsString(c.urn_id)
  /\ Optional(c.public_id, IsString(c.public_id))
  /\ IsString(c.name)
  /\ Optional(c.first_name, IsString(c.first_name))
  /\ Optional(c.last_name, IsString(c.last_name))
  /\ Optional(c.headline, IsString(c.headline))
  /\ IsString(c.profile_url)
  /\ Optional(c.profile_pic_url, IsString(c.profile_pic_url))
  /\ Optional(c.company, IsString(c.company))
  /\ Optional(c.job_title, IsString(c.job_title))
  /\ Optional(c.location, IsString(c.location))
  /\ Optional(c.industry, IsString(c.industry))
  /\ Optional(c.email, IsEmail(c.email))
  /\ Optional(c.phone, IsString(c.phone))
  /\ IsDatetime(c.connected_on)
  /\ (c.skills = UndefinedArr \/ IsStringArray(c.skills))
  /\ (c.languages = UndefinedArr \/ IsStringArray(c.languages))

\* ConnectionAcceptedPayloadSchema.safeParse(rawPayload).success
SafeParse(raw) ==
  /\ IsString(raw.webhook_secret)
  /\ raw.event_type = <<"CONNECTION_ACCEPTED">>
  /\ IsDatetime(raw.timestamp)
  /\ IsUuid(raw.source.organization_id)
  /\ IsUuid(raw.source.workspace_id)
  /\ IsUuid(raw.source.integration_id)
  /\ Optional(raw.source.campaign_id, IsUuid(raw.source.campaign_id))
  /\ ConnectionSchema(raw.connection)

TokBytes(t) ==
  CASE t = "s3cret" -> 6
    [] t = "s3creT" -> 6
    [] OTHER -> 1

\* Buffer.from(s).length
RECURSIVE ByteLength(_)
ByteLength(s) == IF s = <<>> THEN 0 ELSE TokBytes(Head(s)) + ByteLength(Tail(s))

\* a secret check that compares the lengths only
VerifyLengthOnly(expected, providedSecret) ==
  IF ~IsString(providedSecret) THEN FALSE
  ELSE ByteLength(expected) = ByteLength(providedSecret)

\* OutreachSyncController.verifyWebhookSecret
VerifyWebhookSecret(expected, providedSecret) ==
  IF ~IsString(providedSecret) THEN FALSE
  ELSE IF ByteLength(expected) # ByteLength(providedSecret) THEN FALSE
  ELSE expected = providedSecret

-----------------------------------------------------------------------------
(* The records and stores the model runs on *)

OrgX == <<"0a000000-0000-4000-8000-00000000000a">>
OrgY == <<"0b000000-0000-4000-8000-00000000000b">>
ConnId == <<"0c000000-0000-4000-8000-00000000000c">>
WorkspaceId == <<"0d000000-0000-4000-8000-00000000000d">>

Secret == <<"s3cret">>

UrlAda == <<"https://", "www.", "linkedin.com", "/in/", "ada">>

IdAda ==
  [urn_id |-> <<"u1">>, public_id |-> Undefined, profile_url |-> UrlAda,
   email |-> <<"ada", "@", "x.com">>]

\* the same urn after the profile moved, no email
IdAdaMoved ==
  [urn_id |-> <<"u1">>, public_id |-> Undefined,
   profile_url |-> <<"https://", "www.", "linkedin.com", "/in/", "ada-l">>,
   email |-> Undefined]

\* another urn behind a variant of the same profile URL
IdAdaOtherUrn ==
  [urn_id |-> <<"u2">>, public_id |-> Undefined,
   profile_url |-> <<"http://", "linkedin.com", "/in/", "ada", "/", "?trk=1">>,
   email |-> Undefined]

\* another urn and profile that shares the email, in upper case
IdAdaMail ==
  [urn_id |-> <<"u3">>, public_id |-> <<"bob">>,
   profile_url |-> <<"https://", "www.", "linkedin.com", "/sales/lead/", "ACwAAB">>,
   email |-> <<"Ada", "@", "X.com">>]

IdSales ==
  [urn_id |-> <<"u4">>, public_id |-> Undefined,
   profile_url |-> <<"https://", "www.", "linkedin.com", "/sales/people/", "ACwAAB">>,
   email |-> Undefined]

IdOther ==
  [urn_id |-> <<"u5">>, public_id |-> EmptyStr,
   profile_url |-> <<"https://", "example.com", "/", "p">>,
   email |-> <<"bob", "@", "y.com">>]

IdNoUrl ==
  [urn_id |-> <<"u6">>, public_id |-> Undefined, profile_url |-> EmptyStr,
   email |-> <<"ada", "@", "x.com">>]

Identities == {IdAda, IdAdaMoved, IdAdaOtherUrn, IdAdaMail, IdSales, IdOther, IdNoUrl}

NameFull ==
  [name |-> <<"Ada", " ", "Lovelace">>, first_name |-> Undefined,
   last_name |-> Undefined]

NameExplicit ==
  [name |-> <<"Ada", " ", "Lovelace">>, first_name |-> <<"Augusta">>,
   last_name |-> <<"King">>]

NameSingle ==
  [name |-> <<" ", "Ada", "  ">>, first_name |-> <<"A.">>, last_name |-> Undefined]

NameThree ==
  [name |-> <<"Ada", "  ", "King", " ", "Lovelace">>, first_name |-> EmptyStr,
   last_name |-> <<"Byron">>]

Names == {NameFull, NameExplicit, NameSingle, NameThree}

EnrichA ==
  [headline |-> <<"Engineer">>, location |-> <<"London">>,
   industry |-> <<"Software">>,
   profile_pic_url |-> <<"https://", "cdn.example.com", "/", "a.jpg">>,
   company |-> <<"Analytical Engines">>, job_title |-> <<"Analyst">>,
   phone |-> <<"+44 1">>, connected_on |-> <<"2024-01-01T00:00:00Z">>,
   skills |-> << <<"math">> >>, languages |-> << <<"en">> >>,
   work_experience |-> <<"job-a">>, education |-> <<"edu-a">>]

EnrichB ==
  [headline |-> <<"Countess">>, location |-> <<"Paris">>,
   industry |-> <<"Research">>,
   profile_pic_url |-> <<"https://", "cdn.example.com", "/", "b.jpg">>,
   company |-> <<"Babbage Ltd">>, job_title |-> <<"Director">>,
   phone |-> <<"+33 2">>, connected_on |-> <<"2024-02-02T00:00:00Z">>,
   skills |-> << <<"math">>, <<"poetry">> >>, languages |-> << <<"fr">> >>,
   work_experience |-> <<"job-b">>, education |-> <<"edu-b">>]

\* every optional field left out
EnrichNone ==
  [headline |-> Undefined, location |-> Undefined, industry |-> Undefined,
   profile_pic_url |-> Undefined, company |-> Undefined, job_title |-> Undefined,
   phone |-> Undefined, connected_on |-> <<"2024-02-02T00:00:00Z">>,
   skills |-> UndefinedArr, languages |-> UndefinedArr,
   work_experience |-> Undefined, education |-> Undefined]

\* every optional field sent, with an empty value
EnrichEmpty ==
  [headline |-> EmptyStr, location |-> EmptyStr, industry |-> EmptyStr,
   profile_pic_url |-> EmptyStr, company |-> EmptyStr, job_title |-> EmptyStr,
   phone |-> EmptyStr, connected_on |-> <<"2024-01-01T00:00:00Z">>,
   skills |-> EmptyArr, languages |-> EmptyArr,
   work_experience |-> Null, education |-> EmptyStr]

EnrichMixed ==
  [headline |-> <<"Countess">>, location |-> Undefined, industry |-> EmptyStr,
   profile_pic_url |-> Undefined, company |-> Undefined,
   job_title |-> <<"Director">>, phone |-> Undefined,
   connected_on |-> <<"2024-02-02T00:00:00Z">>,
   skills |-> UndefinedArr, languages |-> << <<"fr">> >>,
   work_experience |-> <<"job-b">>, education |-> Undefined]

Enrichments == {EnrichA, EnrichB, EnrichNone, EnrichEmpty, EnrichMixed}

Connection(identity, name, enrichment) ==
  [id |-> ConnId] @@ identity @@ name @@ enrichment

\* every record the direct service calls are given
Connections ==
  {Connection(i, n, e) : i \in Identities, n \in Names, e \in Enrichments}

Payload(secret, org, c) ==
  [webhook_secret |-> secret, event_type |-> <<"CONNECTION_ACCEPTED">>,
   timestamp |-> <<"2024-02-02T00:00:00Z">>,
   source |-> [organization_id |-> org, workspace_id |-> WorkspaceId,
               integration_id |-> WorkspaceId, campaign_id |-> Undefined],
   connection |-> c]

\* a row another module of the CRM wrote, edited by its users
ManualContact(org, first, lastN, email, url, jobTitle) ==
  [organizationId |-> org, firstName |-> first, lastName |-> lastN,
   email |-> email, phone |-> Null, jobTitle |-> jobTitle, linkedinUrl |-> url,
   profileImageUrl |-> <<"https://", "cdn.example.com", "/", "g.jpg">>,
   isLead |-> FALSE, leadSource |-> "MANUAL", leadStatus |-> "QUALIFIED",
   owner |-> "user1", priority |-> "HIGH",
   customFields |-> [NoCustomFields EXCEPT !.userNote = <<"vip">>]]

ManualUrl ==
  ManualContact(OrgX, <<"Grace">>, EmptyStr, Null,
                <<"http://", "www.", "linkedin.com", "/in/", "ada">>, <<"CTO">>)

ManualMail ==
  ManualContact(OrgX, EmptyStr, <<"Byron">>, <<"ada", "@", "x.com">>, Null, Null)

\* a contact an earlier sync created for urn u1, since edited by its owner
SyncedU1 ==
  [NewContactRow(OrgX, Connection(IdAdaMoved, NameExplicit, EnrichA), 0)
     EXCEPT !.leadStatus = "CONTACTED", !.owner = "user2", !.priority = "LOW",
            !.customFields.userNote = <<"met at conf">>]

\* the same person in another organization
OtherOrgAda ==
  [NewContactRow(OrgY, Connection(IdAda, NameFull, EnrichA), 0)
     EXCEPT !.owner = "user9"]

\* the configured secret and the contacts at start
InitialStates ==
  { <<EmptyStr, <<>> >>,
    <<Secret, <<OtherOrgAda>> >>,
    <<Secret, <<SyncedU1, ManualUrl, ManualMail>> >> }

-----------------------------------------------------------------------------
(* One pipeline run: match, then create or merge, then the activity *)

\* no storage call of a run throws
NoFails ==
  [urn |-> FALSE, url |-> FALSE, email |-> FALSE, read |-> FALSE,
   write |-> FALSE, activity |-> FALSE]

Outcome(store, acts, caught, result) ==
  [store |-> store, acts |-> acts, caught |-> caught, result |-> result]

\* the body of the try block once findMatch has returned matchResult
RunPipeline(store, acts, organizationId, c, f, now, matchResult) ==
  IF matchResult.thrown
    THEN Outcome(store, acts, TRUE, Skipped(<<"lookup failed">>))
  ELSE LET r == IF matchResult.found
                  THEN MergeContact(store, matchResult, c, FALSE, now, f.read, f.write)
                  ELSE CreateContact(store, organizationId, c, now, f.write)
       IN IF r.thrown THEN Outcome(r.store, acts, TRUE, r.result)
          ELSE IF r.result.success /\ r.result.contact_id # 0
            THEN LET a == CreateSyncActivity(acts, organizationId,
                                             r.result.contact_id, r.result.action,
                                             c, f.activity)
                 IN IF a.thrown
                      THEN Outcome(r.store, a.acts, TRUE,
                                   Skipped(<<"activity.create failed">>))
                    ELSE Outcome(r.store, a.acts, FALSE, r.result)
          ELSE Outcome(r.store, acts, FALSE, r.result)

\* the lookups findMatch makes, given the lookups that throw
LookupsMade(store, organizationId, c, f) ==
  LET urnMissed == MatchByUrnId(store, organizationId, c.urn_id, f.urn).hits = {}
      normalizedUrl == MatcherNormalizeLinkedInUrl(c.profile_url, c.public_id)
      urlMissed ==
        \/ ~Truthy(normalizedUrl)
        \/ MatchByLinkedInUrl(store, organizationId, normalizedUrl, f.url).hits = {}
  IN {"urn"}
     \cup (IF urnMissed /\ Truthy(normalizedUrl) THEN {"url"} ELSE {})
     \cup (IF urnMissed /\ urlMissed /\ Truthy(c.email) THEN {"email"} ELSE {})

\* the storage calls create or merge makes after matchResult
WritesMade(c, f, matchResult) ==
  (IF matchResult.found /\ ~ParseNameThrows(c) THEN {"read"} ELSE {})
  \cup (IF ~ParseNameThrows(c) /\ (matchResult.found => ~f.read)
          THEN {"write"} ELSE {})

\* what the response record keeps of f: whether some lookup threw, and the rest
Faults(f) ==
  [lookup |-> f.urn \/ f.url \/ f.email, read |-> f.read, write |-> f.write,
   activity |-> f.activity]

NoFaults == Faults(NoFails)

\* the failure choices of a run: f marks only storage calls that the run makes
LookupFailures(store, organizationId, c) ==
  {f \in [urn : BOOLEAN, url : BOOLEAN, email : BOOLEAN] :
     LET made == LookupsMade(store, organizationId, c, f) IN
     /\ f.urn => "urn" \in made
     /\ f.url => "url" \in made
     /\ f.email => "email" \in made}

WriteFailures(c, matchResult) ==
  {f \in [read : BOOLEAN, write : BOOLEAN] :
     LET made == WritesMade(c, f, matchResult) IN
     /\ f.read => "read" \in made
     /\ f.write => "write" \in made}

-----------------------------------------------------------------------------
(* POST /webhooks/outreach/connection-accepted *)

MaxRuns == 2

PipelineConnections ==
  { Connection(IdAda, NameFull, EnrichA),
    Connection(IdAdaMoved, NameExplicit, EnrichNone),
    Connection(IdAdaOtherUrn, NameSingle, EnrichB) }

BadTimestamp ==
  [Payload(Secret, OrgX, Connection(IdAda, NameFull, EnrichA))
     EXCEPT !.timestamp = <<"yesterday">>]

RawPayloads ==
  {Payload(Secret, OrgX, c) : c \in PipelineConnections}
  \cup { Payload(Secret, OrgY, Connection(IdAda, NameFull, EnrichB)),
         Payload(<<"s3creT">>, OrgX, Connection(IdAda, NameFull, EnrichA)),
         BadTimestamp }

NoMatchResult == [MatchNew EXCEPT !.match_type = "<none>"]

NoRequest ==
  [op |-> "<none>", status |-> 0, raw |-> BadTimestamp, fails |-> NoFaults,
   fresh |-> FALSE, match |-> NoMatchResult, caught |-> FALSE, result |-> NoResult]

\* the request is refused before any storage call
Reject(raw, status) ==
  /\ last' = [op |-> "connection-accepted", status |-> status, raw |-> raw,
              fails |-> NoFaults, fresh |-> FALSE, match |-> NoMatchResult,
              caught |-> FALSE, result |-> NoResult]
  /\ twice' = FALSE
  /\ UNCHANGED <<contacts, activities>>

\* what handleConnectionAccepted does with a request that passed both checks
Process(raw, f, matchResult) ==
  LET organization_id == raw.source.organization_id
      connectionData == raw.connection
      out == RunPipeline(contacts, activities, organization_id, connectionData, f,
                         clock + 1, matchResult)
  IN /\ contacts' = out.store
     /\ activities' = out.acts
     /\ last' = [op |-> "connection-accepted", status |-> 200, raw |-> raw,
                 fails |-> Faults(f),
                 fresh |-> (FindMatch(contacts, organization_id, connectionData,
                                      NoFails) = {MatchNew}),
                 match |-> matchResult, caught |-> out.caught, result |-> out.result]
     /\ twice' = /\ last.op = "connection-accepted"
                 /\ last.status = 200
                 /\ last.fresh
                 /\ last.fails = NoFaults
                 /\ last.raw = raw
                 /\ f = NoFails

\* OutreachSyncController.handleConnectionAccepted, the storage calls that
\* throw chosen as the run goes
HandleConnectionAccepted(raw) ==
  /\ clock' = clock + 1
  /\ UNCHANGED <<webhookSecret, uniqueUrn, call, procs>>
  /\ IF ~SafeParse(raw) THEN Reject(raw, 400)
     ELSE IF Truthy(webhookSecret)
             /\ ~VerifyWebhookSecret(webhookSecret, raw.webhook_secret)
       THEN Reject(raw, 401)
     ELSE LET organization_id == raw.source.organization_id
              connectionData == raw.connection
          IN \E fl \in LookupFailures(contacts, organization_id, connectionData) :
             \E matchResult \in FindMatch(contacts, organization_id, connectionData,
                                          fl @@ NoFails) :
             \E fw \in WriteFailures(connectionData, matchResult) :
             \E fa \in BOOLEAN :
               LET f == [activity |-> fa] @@ fw @@ fl IN
               /\ fa => RunPipeline(contacts, activities, organization_id,
                                    connectionData, f, clock + 1, matchResult)
                          .result.success
               /\ Process(raw, f, matchResult)

NoCall == [op |-> "<none>"]

Init ==
  /\ \E st \in InitialStates : webhookSecret = st[1] /\ contacts = st[2]
  /\ uniqueUrn = FALSE
  /\ activities = <<>>
  /\ clock = 0
  /\ last = NoRequest
  /\ twice = FALSE
  /\ call = NoCall
  /\ procs = <<>>

\* a connection-accepted request arrives
ConnectionAccepted ==
  /\ clock < MaxRuns
  /\ \E raw \in RawPayloads : HandleConnectionAccepted(raw)

Next == ConnectionAccepted

Spec == Init /\ [][Next]_vars

-----------------------------------------------------------------------------
(* Properties of the pipeline *)

\* the contacts of an organization that store the urn as their integration id
ContactsWithUrn(store, organizationId, urn) ==
  {i \in DOMAIN store : /\ store[i].organizationId = organizationId
                        /\ store[i].customFields.linkedinUrnId = urn}

Served == last.op = "connection-accepted" /\ last.status = 200

\* C1: from a store with no contact matching the record, and with no storage
\* error, a payload processed twice in a row is created (NEW) by the first run
\* and updated (URN_ID) by the second, and one contact holds its urn at the end.
C1_CreatedThenUpdated ==
  /\ (Served /\ last.fresh /\ last.fails = NoFaults) =>
        /\ last.result.success
        /\ last.result.action = "created"
        /\ last.result.match_type = "NEW"
  /\ twice =>
        /\ last.result.success
        /\ last.result.action = "updated"
        /\ last.result.match_type = "URN_ID"
        /\ Cardinality(ContactsWithUrn(contacts, last.raw.source.organization_id,
                                       last.raw.connection.urn_id)) = 1

C1_Witness == twice /\ last.result.action = "updated" /\ Len(contacts) = 1

\* C2: after any sequence of pipeline runs, lookups and writes free to fail, at
\* most one contact of an organization stores a given urn.
C2_AtMostOneContactPerUrn ==
  \A i, j \in DOMAIN contacts :
    (/\ contacts[i].organizationId = contacts[j].organizationId
     /\ contacts[i].customFields.linkedinUrnId = contacts[j].customFields.linkedinUrnId
     /\ contacts[i].customFields.linkedinUrnId # Undefined)
    => i = j

\* C10: a storage failure inside createContact or mergeContact is not thrown:
\* the call returns success=false, action skipped, an error message and no
\* contact id, and the handler answers 200 with that outcome.
C10_WriteFailureIsSkipped ==
  (Served /\ (last.fails.read \/ last.fails.write)) =>
     /\ ~last.caught
     /\ last.result.success = FALSE
     /\ last.result.action = "skipped"
     /\ last.result.contact_id = 0
     /\ Truthy(last.result.error)
     /\ last.status = 200

C10_Witness ==
  /\ Served /\ last.fails.write /\ ~last.match.found
  /\ last.result.action = "skipped"

-----------------------------------------------------------------------------
(* The services called directly, once, on a store drawn at start *)

\* a synced contact whose optional fields were all sent empty
SyncedEmpty ==
  NewContactRow(OrgX, Connection(IdSales, NameSingle, EnrichEmpty), 0)

\* a contact typed in by a user, the email as they wrote it
ManualUpper ==
  ManualContact(OrgX, <<"Ada">>, <<"King">>, <<"Ada", "@", "X.com">>, Null, Null)

ServiceStores ==
  { <<>>,
    <<SyncedU1, ManualUrl, ManualMail>>,
    <<OtherOrgAda, ManualMail, SyncedEmpty>>,
    <<ManualUpper>> }

\* the records findMatch is called with: only the identity matters to it
MatchConnections == {Connection(i, NameFull, EnrichA) : i \in Identities}

MatchKinds == {"URN_ID", "LINKEDIN_URL", "EMAIL"}

Called(op, org, c, f, force, matchResult, r) ==
  [op |-> op, organizationId |-> org, c |-> c, fails |-> f, forceUpdate |-> force,
   match |-> matchResult, before |-> contacts, thrown |-> r.thrown,
   result |-> r.result]

\* ContactMatcherService.findMatch, called once
FindMatchCall(organizationId, c) ==
  /\ \E fl \in LookupFailures(contacts, organizationId, c) :
     \E matchResult \in FindMatch(contacts, organizationId, c, fl @@ NoFails) :
       call' = Called("findMatch", organizationId, c, fl @@ NoFails, FALSE, matchResult,
                      [thrown |-> matchResult.thrown, result |-> NoResult])
  /\ UNCHANGED <<webhookSecret, uniqueUrn, contacts, activities, clock, last, twice, procs>>

\* ContactMergerService.createContact, called once
CreateContactCall(organizationId, c, fail) ==
  /\ LET r == CreateContact(contacts, organizationId, c, clock + 1, fail) IN
     /\ contacts' = r.store
     /\ call' = Called("createContact", organizationId, c,
                       [NoFails EXCEPT !.write = fail], FALSE, MatchNew, r)
  /\ clock' = clock + 1
  /\ UNCHANGED <<webhookSecret, uniqueUrn, activities, last, twice, procs>>

\* ContactMergerService.mergeContact, called once with a match on contact id
MergeContactCall(id, kind, c, forceUpdate, failRead, failUpdate) ==
  /\ id \in DOMAIN contacts
  /\ failRead => ~failUpdate
  /\ LET matchResult == MatchFound(contacts, id, kind)
         r == MergeContact(contacts, matchResult, c, forceUpdate, clock + 1,
                           failRead, failUpdate)
     IN /\ contacts' = r.store
        /\ call' = Called("mergeContact", contacts[id].organizationId, c,
                          [NoFails EXCEPT !.read = failRead, !.write = failUpdate],
                          forceUpdate, matchResult, r)
  /\ clock' = clock + 1
  /\ UNCHANGED <<webhookSecret, uniqueUrn, activities, last, twice, procs>>

InitService ==
  /\ webhookSecret = Secret
  /\ uniqueUrn = FALSE
  /\ contacts \in ServiceStores
  /\ activities = <<>>
  /\ clock = 0
  /\ last = NoRequest
  /\ twice = FALSE
  /\ call = NoCall
  /\ procs = <<>>

\* the calls, each on the store as drawn
FindMatchOnce ==
  /\ call.op = "<none>"
  /\ \E org \in {OrgX, OrgY}, c \in MatchConnections : FindMatchCall(org, c)

CreateContactOnce ==
  /\ call.op = "<none>"
  /\ \E org \in {OrgX, OrgY}, c \in Connections, fail \in BOOLEAN :
       CreateContactCall(org, c, fail)

MergeContactOnce ==
  /\ call.op = "<none>"
  /\ \E id \in DOMAIN contacts, kind \in MatchKinds, c \in Connections,
        forceUpdate \in BOOLEAN, failRead \in BOOLEAN, failUpdate \in BOOLEAN :
       MergeContactCall(id, kind, c, forceUpdate, failRead, failUpdate)

\* mergeContact called again with the same record and forceUpdate, on a match
\* read from the store the first call left
MergeContactAgain ==
  /\ call.op = "mergeContact" /\ call.result.success
  /\ \E matchResult \in {MatchFound(contacts, call.match.contact_id,
                                     call.match.match_type)} :
     \E r \in {MergeContact(contacts, matchResult, call.c, call.forceUpdate,
                            clock + 1, FALSE, FALSE)} :
       /\ contacts' = r.store
       /\ call' = Called("mergeContact again", call.organizationId, call.c,
                         NoFails, call.forceUpdate, matchResult, r)
  /\ clock' = clock + 1
  /\ UNCHANGED <<webhookSecret, uniqueUrn, activities, last, twice, procs>>

\* findMatch called with the record a successful create or merge just wrote
FindMatchAgain ==
  /\ call.op \in {"createContact", "mergeContact"} /\ call.result.success
  /\ \E failUrn \in BOOLEAN :
     \E matchResult \in FindMatch(contacts, call.organizationId, call.c,
                                  [NoFails EXCEPT !.urn = failUrn]) :
       call' = Called("findMatch again", call.organizationId, call.c,
                      [NoFails EXCEPT !.urn = failUrn], FALSE, matchResult,
                      [thrown |-> matchResult.thrown, result |-> call.result])
  /\ UNCHANGED <<webhookSecret, uniqueUrn, contacts, activities, clock, last, twice, procs>>

NextService ==
  \/ FindMatchOnce
  \/ CreateContactOnce
  \/ MergeContactOnce
  \/ MergeContactAgain
  \/ FindMatchAgain

SpecService == InitService /\ [][NextService]_vars

-----------------------------------------------------------------------------
(* Two deliveries handled concurrently: one step per awaited storage call *)

Deliveries == {"d1", "d2"}

ConcPayloads ==
  { Payload(Secret, OrgX, Connection(IdAda, NameFull, EnrichA)),
    Payload(Secret, OrgX, Connection(IdAdaMoved, NameExplicit, EnrichB)),
    BadTimestamp }

ConcStores == { <<>>, <<ManualUrl>> }

\* a delivery before its request is read
Waiting ==
  [pc |-> "start", status |-> 0, raw |-> BadTimestamp, match |-> NoMatchResult,
   jobTitle |-> Undefined, lookupFailed |-> FALSE, writeFailed |-> FALSE,
   caught |-> FALSE, result |-> NoResult]

\* where findMatch goes after the step named by from missed
AfterMiss(c, from) ==
  LET normalizedUrl == MatcherNormalizeLinkedInUrl(c.profile_url, c.public_id) IN
  IF from = "URN_ID" /\ Truthy(normalizedUrl) THEN "url"
  ELSE IF from \in {"URN_ID", "LINKEDIN_URL"} /\ Truthy(c.email) THEN "email"
  ELSE "create"

\* the delivery's lookup step returned rows: a hit goes to the merge, a miss on
\* to the next step, an error out of findMatch to the handler's catch block
Looked(d, rows, kind, fail) ==
  LET p == procs[d]
      c == p.raw.connection
      q == [p EXCEPT !.lookupFailed = @ \/ fail]
  IN /\ IF rows.thrown
          THEN procs' = [procs EXCEPT ![d] =
                           [q EXCEPT !.pc = "done", !.caught = TRUE,
                                     !.match = MatchThrown,
                                     !.result = Skipped(<<"lookup failed">>)]]
        ELSE IF rows.hits # {}
          THEN \E i \in rows.hits :
                 procs' = [procs EXCEPT ![d] =
                             [q EXCEPT !.pc = "read",
                                       !.match = MatchFound(contacts, i, kind)]]
        ELSE procs' = [procs EXCEPT ![d] =
                         [q EXCEPT !.pc = AfterMiss(c, kind),
                                   !.match = IF AfterMiss(c, kind) = "create"
                                               THEN MatchNew ELSE @]]
     /\ UNCHANGED <<webhookSecret, uniqueUrn, contacts, activities, clock, last, twice, call>>

\* the request is parsed and its secret checked
Receive(d) ==
  /\ procs[d].pc = "start"
  /\ \E raw \in ConcPayloads :
       procs' = [procs EXCEPT ![d] =
                   IF ~SafeParse(raw) THEN [@ EXCEPT !.pc = "done", !.status = 400]
                   ELSE IF Truthy(webhookSecret)
                           /\ ~VerifyWebhookSecret(webhookSecret, raw.webhook_secret)
                     THEN [@ EXCEPT !.pc = "done", !.status = 401]
                   ELSE [@ EXCEPT !.pc = "urn", !.status = 200, !.raw = raw]]
  /\ UNCHANGED <<webhookSecret, uniqueUrn, contacts, activities, clock, last, twice, call>>

LookupUrn(d) ==
  /\ procs[d].pc = "urn"
  /\ \E fail \in BOOLEAN :
       Looked(d, MatchByUrnId(contacts, procs[d].raw.source.organization_id,
                              procs[d].raw.connection.urn_id, fail),
              "URN_ID", fail)

LookupUrl(d) ==
  /\ procs[d].pc = "url"
  /\ \E fail \in BOOLEAN :
       LET c == procs[d].raw.connection IN
       Looked(d, MatchByLinkedInUrl(contacts, procs[d].raw.source.organization_id,
                                    MatcherNormalizeLinkedInUrl(c.profile_url,
                                                                c.public_id),
                                    fail),
              "LINKEDIN_URL", fail)

LookupEmail(d) ==
  /\ procs[d].pc = "email"
  /\ \E fail \in BOOLEAN :
       Looked(d, MatchByEmail(contacts, procs[d].raw.source.organization_id,
                              procs[d].raw.connection.email, fail),
              "EMAIL", fail)

\* mergeContact up to its findUnique
ReadJobTitle(d) ==
  LET p == procs[d]
      c == p.raw.connection
  IN /\ p.pc = "read"
     /\ \E fail \in BOOLEAN :
          procs' = [procs EXCEPT ![d] =
                      IF ParseNameThrows(c)
                        THEN [@ EXCEPT !.pc = "done",
                                       !.result = CaughtError(contacts,
                                                     <<"TypeError">>).result]
                      ELSE IF fail
                        THEN [@ EXCEPT !.pc = "done", !.writeFailed = TRUE,
                                       !.result = CaughtError(contacts,
                                          <<"contact.findUnique failed">>).result]
                      ELSE [@ EXCEPT !.pc = "update",
                                     !.jobTitle = contacts[p.match.contact_id].jobTitle]]
     /\ UNCHANGED <<webhookSecret, uniqueUrn, contacts, activities, clock, last, twice, call>>

\* mergeContact from its update on
Update(d) ==
  LET p == procs[d]
      c == p.raw.connection
      data == UpdateData(p.match.existing_data, c, FALSE, p.jobTitle, clock + 1)
  IN /\ p.pc = "update"
     /\ \E fail \in BOOLEAN :
          IF fail \/ UpdateRejected(contacts, p.match.contact_id, c.urn_id)
            THEN /\ procs' = [procs EXCEPT ![d] =
                                [@ EXCEPT !.pc = "done", !.writeFailed = fail,
                                          !.result = CaughtError(contacts,
                                             <<"contact.update failed">>).result]]
                 /\ UNCHANGED contacts
          ELSE /\ contacts' = UpdateContact(contacts, p.match.contact_id, data)
               /\ procs' = [procs EXCEPT ![d] =
                              [@ EXCEPT !.pc = "activity",
                                        !.result = Updated(p.match, c)]]
     /\ clock' = clock + 1
     /\ UNCHANGED <<webhookSecret, uniqueUrn, activities, last, twice, call>>

\* createContact
Create(d) ==
  LET p == procs[d] IN
  /\ p.pc = "create"
  /\ \E fail \in BOOLEAN :
       LET r == CreateContact(contacts, p.raw.source.organization_id,
                              p.raw.connection, clock + 1, fail)
       IN /\ contacts' = r.store
          /\ procs' = [procs EXCEPT ![d] =
                         [@ EXCEPT !.pc = IF r.thrown \/ ~r.result.success
                                            THEN "done" ELSE "activity",
                                   !.writeFailed = fail,
                                   !.caught = r.thrown,
                                   !.result = r.result]]
  /\ clock' = clock + 1
  /\ UNCHANGED <<webhookSecret, uniqueUrn, activities, last, twice, call>>

\* createSyncActivity, then the response
LogActivity(d) ==
  LET p == procs[d] IN
  /\ p.pc = "activity"
  /\ \E fail \in BOOLEAN :
       LET a == CreateSyncActivity(activities, p.raw.source.organization_id,
                                   p.result.contact_id, p.result.action,
                                   p.raw.connection, fail)
       IN /\ activities' = a.acts
          /\ procs' = [procs EXCEPT ![d] =
                         IF a.thrown
                           THEN [@ EXCEPT !.pc = "done", !.caught = TRUE,
                                          !.result =
                                             Skipped(<<"activity.create failed">>)]
                         ELSE [@ EXCEPT !.pc = "done"]]
  /\ UNCHANGED <<webhookSecret, uniqueUrn, contacts, clock, last, twice, call>>

InitConc ==
  /\ webhookSecret = Secret
  /\ uniqueUrn = FALSE
  /\ contacts \in ConcStores
  /\ activities = <<>>
  /\ clock = 0
  /\ last = NoRequest
  /\ twice = FALSE
  /\ call = NoCall
  /\ procs = [d \in Deliveries |-> Waiting]

\* a user of the CRM rewrites the note they keep in a contact's customFields
UserEdits ==
  /\ \E i \in DOMAIN contacts :
       /\ contacts[i].customFields.userNote = <<"vip">>
       /\ contacts' = [contacts EXCEPT
                         ![i].customFields.userNote = <<"vip", ", call back">>]
  /\ UNCHANGED <<webhookSecret, uniqueUrn, activities, clock, last, twice, call, procs>>

Delivery(d) ==
  \/ Receive(d)
  \/ LookupUrn(d)
  \/ LookupUrl(d)
  \/ LookupEmail(d)
  \/ ReadJobTitle(d)
  \/ Update(d)
  \/ Create(d)
  \/ LogActivity(d)

NextConc == (\E d \in Deliveries : Delivery(d)) \/ UserEdits

SpecConc == InitConc /\ [][NextConc]_vars

\* the delivery's findMatch found nothing though none of its lookups threw
MissedCleanly(d) ==
  /\ procs[d].pc \in {"activity", "done"}
  /\ procs[d].status = 200
  /\ procs[d].match = MatchNew
  /\ ~procs[d].lookupFailed

\* C3: with no uniqueness constraint in the store, two concurrent deliveries
\* of the same urn for one organization that both finished their match read
\* with not found both create a contact when their create call does not fail,
\* which leaves two contacts of the organization with the same stored urn.
C3_RacingDeliveriesBothCreate ==
  LET a == procs["d1"]
      b == procs["d2"]
  IN (/\ MissedCleanly("d1") /\ MissedCleanly("d2")
      /\ a.raw.source.organization_id = b.raw.source.organization_id
      /\ a.raw.connection.urn_id = b.raw.connection.urn_id
      /\ ~a.writeFailed /\ ~b.writeFailed) =>
        /\ a.result.action = "created" /\ b.result.action = "created"
        /\ a.result.contact_id # b.result.contact_id
        /\ Cardinality(ContactsWithUrn(contacts, a.raw.source.organization_id,
                                       a.raw.connection.urn_id)) >= 2

\* both deliveries are answered and the urn is stored on two contacts
C3_Witness ==
  /\ MissedCleanly("d1") /\ MissedCleanly("d2")
  /\ procs["d1"].pc = "done" /\ procs["d2"].pc = "done"
  /\ procs["d1"].result.action = "created"
  /\ procs["d2"].result.action = "created"
  /\ Cardinality(ContactsWithUrn(contacts, OrgX, <<"u1">>)) = 2

-----------------------------------------------------------------------------
(* Properties of findMatch *)

\* the contacts of the call's organization each cascade step looks for
UrnHits ==
  {i \in DOMAIN contacts :
     /\ contacts[i].organizationId = call.organizationId
     /\ contacts[i].customFields.linkedinUrnId = call.c.urn_id}

UrlHits ==
  LET url == MatcherNormalizeLinkedInUrl(call.c.profile_url, call.c.public_id) IN
  IF ~Truthy(url) THEN {}
  ELSE {i \in DOMAIN contacts :
          /\ contacts[i].organizationId = call.organizationId
          /\ contacts[i].linkedinUrl \in GetLinkedInUrlVariations(url)}

EmailHits ==
  IF ~Truthy(call.c.email) THEN {}
  ELSE {i \in DOMAIN contacts :
          /\ contacts[i].organizationId = call.organizationId
          /\ contacts[i].email = ToLowerCase(call.c.email)}

\* the call returned contact set hits with the given kind
ReturnedHit(hits, kind) ==
  /\ call.match.found
  /\ call.match.match_type = kind
  /\ call.match.contact_id \in hits
  /\ call.match.existing_data = ExistingData(contacts, call.match.contact_id)

ReturnedNotFound == ~call.match.found /\ call.match.match_type = "NEW"

\* C4: with every lookup succeeding findMatch returns the hit of the first
\* step that hits, in the order URN, URL, email, whatever the later steps
\* would match, and not found when none hits.
C4_CascadeOrder ==
  (call.op = "findMatch" /\ call.fails = NoFails) =>
     /\ ~call.thrown
     /\ UrnHits # {} => ReturnedHit(UrnHits, "URN_ID")
     /\ (UrnHits = {} /\ UrlHits # {}) => ReturnedHit(UrlHits, "LINKEDIN_URL")
     /\ (UrnHits = {} /\ UrlHits = {} /\ EmailHits # {}) =>
           ReturnedHit(EmailHits, "EMAIL")
     /\ (UrnHits = {} /\ UrlHits = {} /\ EmailHits = {}) => ReturnedNotFound

\* the urn matches one contact while URL and email match two others
C4_Witness ==
  /\ call.op = "findMatch" /\ call.fails = NoFails
  /\ call.match.match_type = "URN_ID"
  /\ UrlHits \ UrnHits # {}
  /\ EmailHits \ (UrnHits \cup UrlHits) # {}

\* C5: a lookup that throws inside a cascade step is a miss of that step only:
\* findMatch does not throw, goes on to the later steps and returns the first
\* hit among the steps that did not throw, with that step's kind.
C5_LookupErrorIsMiss ==
  LET urn == IF call.fails.urn THEN {} ELSE UrnHits
      url == IF call.fails.url THEN {} ELSE UrlHits
      email == IF call.fails.email THEN {} ELSE EmailHits
  IN (call.op = "findMatch" /\ call.fails # NoFails) =>
       /\ ~call.thrown
       /\ urn # {} => ReturnedHit(urn, "URN_ID")
       /\ (urn = {} /\ url # {}) => ReturnedHit(url, "LINKEDIN_URL")
       /\ (urn = {} /\ url = {} /\ email # {}) => ReturnedHit(email, "EMAIL")
       /\ (urn = {} /\ url = {} /\ email = {}) => ReturnedNotFound

\* the urn lookup threw on a stored urn and the URL step answered
C5_Witness ==
  /\ call.op = "findMatch" /\ call.fails.urn /\ UrnHits # {}
  /\ call.match.match_type = "LINKEDIN_URL"

-----------------------------------------------------------------------------
(* Properties of mergeContact and createContact *)

Merged == call.op = "mergeContact" /\ call.result.success

Before == call.before[call.match.contact_id]
After == contacts[call.match.contact_id]
Resolved == ParseName(call.c.name, call.c.first_name, call.c.last_name)

\* C6: a merge leaves a non-empty firstName alone when forceUpdate is false
\* and sets it to the resolved inbound first name when forceUpdate is true;
\* lastName, email and jobTitle follow the same rule.
C6_BasicFieldsOnlyIfEmptyOrForced ==
  Merged =>
    /\ (Truthy(Before.firstName) /\ ~call.forceUpdate) =>
          After.firstName = Before.firstName
    /\ (Truthy(Before.lastName) /\ ~call.forceUpdate) =>
          After.lastName = Before.lastName
    /\ (Truthy(Before.email) /\ ~call.forceUpdate) => After.email = Before.email
    /\ (Truthy(Before.jobTitle) /\ ~call.forceUpdate) =>
          After.jobTitle = Before.jobTitle
    /\ (call.forceUpdate \/ ~Truthy(Before.firstName)) =>
          After.firstName = Resolved.firstName
    /\ (call.forceUpdate \/ ~Truthy(Before.lastName)) =>
          After.lastName = Resolved.lastName
    /\ ((call.forceUpdate \/ ~Truthy(Before.email)) /\ Truthy(call.c.email)) =>
          After.email = ToLowerCase(call.c.email)
    /\ ((call.forceUpdate \/ ~Truthy(Before.jobTitle))
        /\ call.c.job_title # Undefined) =>
          After.jobTitle = call.c.job_title

\* a stored first name is replaced under forceUpdate
C6_Witness ==
  /\ Merged /\ call.forceUpdate
  /\ Truthy(Before.firstName) /\ After.firstName # Before.firstName
  /\ Truthy(Before.jobTitle) /\ After.jobTitle # Before.jobTitle

\* the integration-sourced fields end as the record has them
HeadlineSet == After.customFields.linkedinHeadline = call.c.headline
LocationSet == After.customFields.linkedinLocation = call.c.location
IndustrySet == After.customFields.linkedinIndustry = call.c.industry
ConnectedSet == After.customFields.linkedinConnected = call.c.connected_on
CustomPhotoSet == After.customFields.linkedinProfilePhoto = call.c.profile_pic_url
PhotoSet == CustomPhotoSet /\ After.profileImageUrl = call.c.profile_pic_url
SkillsSet == After.customFields.linkedinSkills = call.c.skills
LanguagesSet == After.customFields.linkedinLanguages = call.c.languages
WorkSet == After.customFields.linkedinWorkExperience = call.c.work_experience
EducationSet == After.customFields.linkedinEducation = call.c.education

\* C7 as stated: a successful merge sets every integration-sourced field the
\* record carries to the inbound value, whatever forceUpdate and the stored
\* value are.
C7_CarriedFieldsOverwritten ==
  Merged =>
    /\ call.c.headline # Undefined => HeadlineSet
    /\ call.c.location # Undefined => LocationSet
    /\ call.c.industry # Undefined => IndustrySet
    /\ call.c.connected_on # Undefined => ConnectedSet
    /\ call.c.profile_pic_url # Undefined => PhotoSet
    /\ call.c.skills # UndefinedArr => SkillsSet
    /\ call.c.languages # UndefinedArr => LanguagesSet
    /\ call.c.work_experience # Undefined => WorkSet
    /\ call.c.education # Undefined => EducationSet

\* C7 amended: a successful merge, whatever forceUpdate and the stored values
\* are, sets headline, location, industry, connected date, the customFields
\* photo, skills and languages to the inbound value whenever the record
\* carries the field, and sets the top-level profile image, work history and
\* education to the inbound value whenever the record carries a non-empty one.
C7_NonEmptyFieldsOverwritten ==
  Merged =>
    /\ call.c.headline # Undefined => HeadlineSet
    /\ call.c.location # Undefined => LocationSet
    /\ call.c.industry # Undefined => IndustrySet
    /\ call.c.connected_on # Undefined => ConnectedSet
    /\ call.c.profile_pic_url # Undefined => CustomPhotoSet
    /\ Truthy(call.c.profile_pic_url) => PhotoSet
    /\ call.c.skills # UndefinedArr => SkillsSet
    /\ call.c.languages # UndefinedArr => LanguagesSet
    /\ Truthy(call.c.work_experience) => WorkSet
    /\ Truthy(call.c.education) => EducationSet

\* stored non-empty values are replaced without forceUpdate
C7_Witness ==
  /\ Merged /\ ~call.forceUpdate
  /\ Truthy(Before.customFields.linkedinHeadline)
  /\ Truthy(call.c.headline)
  /\ call.c.headline # Before.customFields.linkedinHeadline
  /\ Before.customFields.linkedinSkills # call.c.skills
  /\ call.c.skills # UndefinedArr

\* C8: a field of customFields that the record omits keeps the value stored
\* before a successful merge.
C8_OmittedFieldsRetained ==
  Merged =>
    /\ call.c.headline = Undefined =>
          After.customFields.linkedinHeadline = Before.customFields.linkedinHeadline
    /\ call.c.location = Undefined =>
          After.customFields.linkedinLocation = Before.customFields.linkedinLocation
    /\ call.c.industry = Undefined =>
          After.customFields.linkedinIndustry = Before.customFields.linkedinIndustry
    /\ call.c.public_id = Undefined =>
          After.customFields.linkedinPublicId = Before.customFields.linkedinPublicId
    /\ call.c.skills = UndefinedArr =>
          After.customFields.linkedinSkills
            = OrArr(Before.customFields.linkedinSkills, EmptyArr)
    /\ call.c.languages = UndefinedArr =>
          After.customFields.linkedinLanguages
            = OrArr(Before.customFields.linkedinLanguages, EmptyArr)
    /\ call.c.work_experience = Undefined =>
          After.customFields.linkedinWorkExperience
            = Before.customFields.linkedinWorkExperience
    /\ call.c.education = Undefined =>
          After.customFields.linkedinEducation = Before.customFields.linkedinEducation

\* C9: no createContact or mergeContact call, forced or not and whatever the
\* match kind, changes leadStatus, owner or priority of a contact that existed
\* before the call.
C9_UserManagedUntouched ==
  call.op \in {"createContact", "mergeContact"} =>
    \A i \in DOMAIN call.before :
      /\ i \in DOMAIN contacts
      /\ contacts[i].leadStatus = call.before[i].leadStatus
      /\ contacts[i].owner = call.before[i].owner
      /\ contacts[i].priority = call.before[i].priority

\* a forced merge into a contact its owner had qualified
C9_Witness ==
  /\ Merged /\ call.forceUpdate
  /\ Before.leadStatus = "QUALIFIED" /\ Before.owner = "user1"
  /\ After.firstName # Before.firstName


-----------------------------------------------------------------------------
(* POST /webhooks/outreach/batch-sync, and one request of either endpoint *)

MaxBatch == 2

\* a null item of the connections list
NullConnection ==
  [id |-> Null, urn_id |-> Null, public_id |-> Null, profile_url |-> Null,
   email |-> Null, name |-> Null, first_name |-> Null, last_name |-> Null,
   headline |-> Null, location |-> Null, industry |-> Null,
   profile_pic_url |-> Null, company |-> Null, job_title |-> Null,
   phone |-> Null, connected_on |-> Null, skills |-> UndefinedArr,
   languages |-> UndefinedArr, work_experience |-> Null, education |-> Null]

\* a record the connection schema refuses: its connected_on is no timestamp
StaleConnection ==
  [Connection(IdAdaOtherUrn, NameSingle, EnrichB)
     EXCEPT !.connected_on = <<"yesterday">>]

BatchConnections ==
  { Connection(IdAda, NameFull, EnrichA),
    Connection(IdAdaMoved, NameExplicit, EnrichNone),
    StaleConnection,
    NullConnection }

\* body.connections: whether it is an array, and its items
Items(items) == [isArray |-> TRUE, items |-> items]
NoItems == [isArray |-> FALSE, items |-> <<>>]

RECURSIVE ListsOf(_, _)
ListsOf(S, n) ==
  IF n = 0 THEN {<<>>}
  ELSE LET shorter == ListsOf(S, n - 1) IN
       shorter \cup {Append(l, x) : l \in shorter, x \in S}

Body(secret, org, connections) ==
  [webhook_secret |-> secret, organization_id |-> org, connections |-> connections]

ProvidedSecrets == {Secret, <<"s3creT">>, <<"x">>, EmptyStr, Undefined, NotString}

BatchBodies ==
  {Body(Secret, org, Items(l)) :
     org \in {OrgX, OrgY}, l \in ListsOf(BatchConnections, MaxBatch)}
  \cup {Body(secret, OrgX, Items(<<Connection(IdAda, NameFull, EnrichA)>>)) :
          secret \in ProvidedSecrets}
  \cup {Body(secret, OrgX, NoItems) : secret \in {Secret, <<"s3creT">>}}

\* the storage calls of one record that throw if made: none, every lookup,
\* the contact write, or the activity append
BatchFailures ==
  { NoFails,
    [NoFails EXCEPT !.urn = TRUE, !.url = TRUE, !.email = TRUE],
    [NoFails EXCEPT !.write = TRUE],
    [NoFails EXCEPT !.activity = TRUE] }

\* findMatch on a list item: destructuring a null item raises a TypeError
FindMatchItem(store, organizationId, c, f) ==
  IF c = NullConnection THEN {MatchThrown}
  ELSE FindMatch(store, organizationId, c, f)

\* one turn of the loop: what went wrong, what was matched, what was pushed
Turn(f, matchResult, out) ==
  [fails |-> f, match |-> matchResult, caught |-> out.caught, result |-> out.result]

\* the records left to the loop when a thrown error ends it
RemainingUnlessCaught(connections, out) ==
  IF out.caught THEN <<>> ELSE Tail(connections)

\* the records left to the loop after the turn that gave out
Remaining(connections, out) == Tail(connections)

NoTally == [created |-> 0, updated |-> 0, skipped |-> 0]

\* counters that miss the records whose processing threw
RECURSIVE TallyReturned(_)
TallyReturned(turns) ==
  IF turns = <<>> THEN NoTally
  ELSE LET t == TallyReturned(Tail(turns))
           h == Head(turns)
       IN IF h.caught THEN t
          ELSE IF h.result.action = "created" THEN [t EXCEPT !.created = @ + 1]
          ELSE IF h.result.action = "updated" THEN [t EXCEPT !.updated = @ + 1]
          ELSE [t EXCEPT !.skipped = @ + 1]

\* the created, updated and skipped counters after the loop
RECURSIVE Tally(_)
Tally(turns) ==
  IF turns = <<>> THEN NoTally
  ELSE LET t == Tally(Tail(turns))
           h == Head(turns)
       IN IF h.caught THEN [t EXCEPT !.skipped = @ + 1]
          ELSE IF h.result.action = "created" THEN [t EXCEPT !.created = @ + 1]
          ELSE IF h.result.action = "updated" THEN [t EXCEPT !.updated = @ + 1]
          ELSE [t EXCEPT !.skipped = @ + 1]

\* the response body of handleBatchSync
BatchResponse(connections, turns) ==
  LET t == Tally(turns) IN
  [total |-> Len(connections), created |-> t.created, updated |-> t.updated,
   skipped |-> t.skipped, results |-> [i \in DOMAIN turns |-> turns[i].result]]

\* the batch request as the handler holds it: status 0 while the loop runs
Batch(status, body, pending, turns) ==
  [op |-> "batch-sync", status |-> status, body |-> body, pending |-> pending,
   turns |-> turns, response |-> BatchResponse(body.connections.items, turns)]

\* a refusal that has already written to the activity log
RejectBatchLogged(body, status) ==
  /\ last' = Batch(status, body, <<>>, <<>>)
  /\ activities' = Append(activities,
                          [organizationId |-> body.organization_id, contactId |-> 0,
                           type |-> "NOTE", title |-> "Batch refused",
                           connectionId |-> Null])
  /\ UNCHANGED contacts

\* the batch is refused before the loop
RejectBatch(body, status) ==
  /\ last' = Batch(status, body, <<>>, <<>>)
  /\ UNCHANGED <<contacts, activities>>

\* OutreachSyncController.handleBatchSync up to its loop
HandleBatchSync(body) ==
  /\ clock' = clock + 1
  /\ UNCHANGED <<webhookSecret, uniqueUrn, twice, call, procs>>
  /\ IF Truthy(webhookSecret)
        /\ ~VerifyWebhookSecret(webhookSecret, body.webhook_secret)
       THEN RejectBatch(body, 401)
     ELSE IF ~body.connections.isArray THEN RejectBatch(body, 400)
     ELSE /\ last' = Batch(IF body.connections.items = <<>> THEN 200 ELSE 0,
                           body, body.connections.items, <<>>)
          /\ UNCHANGED <<contacts, activities>>

\* one turn of the loop of handleBatchSync on the next record, and the
\* response once no record is left
BatchTurn ==
  /\ last.op = "batch-sync" /\ last.status = 0
  /\ \E c \in {Head(last.pending)}, f \in BatchFailures :
     \E m \in FindMatchItem(contacts, last.body.organization_id, c, f) :
     \E out \in {RunPipeline(contacts, activities, last.body.organization_id,
                             c, f, clock, m)} :
     \E left \in {Remaining(last.pending, out)} :
       /\ contacts' = out.store
       /\ activities' = out.acts
       /\ last' = Batch(IF left = <<>> THEN 200 ELSE 0, last.body, left,
                        Append(last.turns, Turn(f, m, out)))
  /\ UNCHANGED <<webhookSecret, uniqueUrn, clock, twice, call, procs>>

\* the connection-accepted requests of this specification
WrongSecretStale ==
  [Payload(<<"s3creT">>, OrgX, Connection(IdAda, NameFull, EnrichA))
     EXCEPT !.timestamp = <<"yesterday">>]

RequestPayloads ==
  RawPayloads
  \cup { WrongSecretStale,
         Payload(Undefined, OrgX, Connection(IdAda, NameFull, EnrichA)),
         Payload(<<"x">>, OrgX, Connection(IdAda, NameFull, EnrichA)),
         Payload(Secret, OrgX, StaleConnection) }

\* the first request is a batch
BatchSyncFirst ==
  /\ last.op = "<none>"
  /\ \E body \in BatchBodies : HandleBatchSync(body)

\* the first request is a single connection
ConnectionAcceptedFirst ==
  /\ last.op = "<none>"
  /\ \E raw \in RequestPayloads : HandleConnectionAccepted(raw)

NextRequest == BatchSyncFirst \/ BatchTurn \/ ConnectionAcceptedFirst

SpecRequest == Init /\ [][NextRequest]_vars


-----------------------------------------------------------------------------
(* Properties of a request *)

BatchDone == last.op = "batch-sync" /\ last.status = 200

BatchItems == last.body.connections.items

\* the positions of the results with the given action
WithAction(action) ==
  {i \in DOMAIN last.response.results : last.response.results[i].action = action}

\* C11: the response of a batch that passed authentication with a list of N
\* records has total N and N results, whatever storage calls failed, and its
\* created, updated and skipped are the numbers of results with that action,
\* so they sum to total.
C11_BatchCountsMatchResults ==
  BatchDone =>
    /\ last.response.total = Len(BatchItems)
    /\ Len(last.response.results) = Len(BatchItems)
    /\ last.response.created = Cardinality(WithAction("created"))
    /\ last.response.updated = Cardinality(WithAction("updated"))
    /\ last.response.skipped = Cardinality(WithAction("skipped"))
    /\ last.response.created + last.response.updated + last.response.skipped
         = last.response.total

\* a batch of two: a null item, and a record that is created
C11_Witness ==
  /\ BatchDone /\ Len(BatchItems) = 2
  /\ \E i \in DOMAIN last.turns : last.turns[i].caught
  /\ last.response.created = 1 /\ last.response.skipped = 1

\* the turn's record went wrong: its processing threw, or its write failed
WentWrong(i) ==
  \/ last.turns[i].caught
  \/ BatchItems[i] = NullConnection
  \/ ParseNameThrows(BatchItems[i])
  \/ last.turns[i].fails.write

\* the message of a result names the record at the same position
NamesRecord(i) ==
  LET n == ParseName(BatchItems[i].name, BatchItems[i].first_name,
                     BatchItems[i].last_name)
      r == last.response.results[i]
  IN r.message = (IF r.action = "created" THEN <<"Created new contact: ">>
                  ELSE <<"Updated existing contact: ">>)
                 \o n.firstName \o <<" ">> \o n.lastName

\* C12: in a batch a record whose processing throws or whose write fails gets
\* a skipped result with an error at its own position; every record, the
\* later ones included, is run in input order; and the contacts created for
\* other records are in the store after the batch.
C12_FailedRecordDoesNotStopBatch ==
  BatchDone =>
    /\ Len(last.turns) = Len(BatchItems)
    /\ \A i \in DOMAIN last.turns :
         LET r == last.response.results[i] IN
         /\ WentWrong(i) =>
              /\ r.action = "skipped" /\ ~r.success /\ Truthy(r.error)
         /\ ~WentWrong(i) =>
              /\ r.success /\ r.action \in {"created", "updated"}
              /\ NamesRecord(i)
              /\ r.contact_id \in DOMAIN contacts
              /\ contacts[r.contact_id].organizationId = last.body.organization_id
         /\ \A j \in DOMAIN last.turns :
              (i # j /\ r.action = "created"
               /\ last.response.results[j].action = "created")
                 => r.contact_id # last.response.results[j].contact_id

\* the first record's write fails and the second record is created
C12_Witness ==
  /\ BatchDone /\ Len(BatchItems) = 2
  /\ last.turns[1].fails.write
  /\ last.response.results[1].action = "skipped"
  /\ last.response.results[2].action = "created"
  /\ Len(contacts) > 0

\* the result a run returns when nothing after findMatch fails
Unharmed(result, matchResult, c) ==
  /\ result.success
  /\ result.error = Undefined
  /\ result.contact_id \in DOMAIN contacts
  /\ IF matchResult.found
       THEN /\ result.action = "updated"
            /\ result.contact_id = matchResult.contact_id
            /\ result.match_type = matchResult.match_type
       ELSE /\ result.action = "created"
            /\ result.match_type = "NEW"
            /\ contacts[result.contact_id].customFields.linkedinUrnId = c.urn_id

\* C13: a failing activity append after a successful create or merge does not
\* propagate: the request returns the success, action, contact id and match
\* type it returns when the append succeeds, and in a batch the record is
\* counted under that action and its contact is stored.
C13_ActivityFailureChangesNothing ==
  /\ (Served /\ last.fails.activity) =>
       /\ ~last.caught
       /\ Unharmed(last.result, last.match, last.raw.connection)
  /\ BatchDone =>
       \A i \in DOMAIN last.turns :
         (last.turns[i].fails.activity /\ BatchItems[i] # NullConnection
          /\ ~ParseNameThrows(BatchItems[i])) =>
            /\ ~last.turns[i].caught
            /\ i \in WithAction("created") \cup WithAction("updated")
            /\ (last.turns[i].match.found
                \/ Len(BatchItems) = 1 \/ i = Len(BatchItems)) =>
                  Unharmed(last.response.results[i], last.turns[i].match,
                           BatchItems[i])

\* a batch of one record: it is created and no activity is logged
C13_Witness ==
  /\ BatchDone /\ Len(BatchItems) = 1
  /\ last.turns[1].fails.activity
  /\ last.response.created = 1
  /\ activities = <<>>
  /\ Len(contacts) > 0

\* the bytes of the provided secret are those of the configured one
SameBytes(provided) == IsString(provided) /\ provided = webhookSecret

\* C14: with a non-empty configured secret a request passes the secret check
\* exactly when the provided secret equals the configured one byte for byte,
\* and a secret of another length, of other content or of no string type is
\* answered 401; with an empty configured secret no request is answered 401.
C14_SecretCheckIsByteEquality ==
  /\ last.op = "batch-sync" =>
       (last.status = 401
          <=> (Truthy(webhookSecret) /\ ~SameBytes(last.body.webhook_secret)))
  /\ (last.op = "connection-accepted" /\ SafeParse(last.raw)) =>
       (last.status = 401
          <=> (Truthy(webhookSecret) /\ ~SameBytes(last.raw.webhook_secret)))

\* a secret of the right length and other content is refused
C14_Witness ==
  /\ last.op = "batch-sync" /\ last.status = 401
  /\ last.body.webhook_secret = <<"s3creT">>
  /\ webhookSecret = Secret

\* C15: a request answered 400 or 401 leaves the contacts and the activities
\* as they were before it.
C15_RejectedRequestWritesNothing ==
  [][(last' # last /\ last'.status \in {400, 401})
       => (contacts' = contacts /\ activities' = activities)]_vars

\* a batch without a connections list is answered 400 on a store with contacts
C15_Witness ==
  /\ last.op = "batch-sync" /\ last.status = 400
  /\ ~last.body.connections.isArray
  /\ contacts # <<>>

\* the secret the request provided
ProvidedSecret ==
  IF last.op = "batch-sync" THEN last.body.webhook_secret
  ELSE last.raw.webhook_secret

\* C16: in both endpoints a request with a wrong secret is answered 401,
\* whether or not the rest of its payload is well-formed.
C16_WrongSecretIsUnauthorized ==
  (last.op # "<none>" /\ Truthy(webhookSecret) /\ ~SameBytes(ProvidedSecret))
    => last.status = 401

\* C17: in both endpoints a record that the schema refuses is never created
\* or merged: the request is answered 400.
C17_MalformedRecordNeverProcessed ==
  /\ Served => SafeParse(last.raw)
  /\ last.op = "batch-sync" =>
       \A i \in DOMAIN last.turns :
         last.turns[i].result.action \in {"created", "updated"}
           => ConnectionSchema(BatchItems[i])


-----------------------------------------------------------------------------
(* Properties of a repeated merge *)

\* a contact without the stamp of its last sync
Unstamped(contact) == [contact EXCEPT !.customFields.lastSyncedAt = 0]

\* C18: mergeContact applied a second time with the same record and the same
\* forceUpdate, matched against the contact the first application left,
\* leaves every stored field of every contact, the lastSyncedAt stamp apart,
\* as the first application left it.
C18_MergeIsIdempotent ==
  call.op = "mergeContact again" =>
    /\ call.result.success
    /\ DOMAIN contacts = DOMAIN call.before
    /\ \A i \in DOMAIN contacts : Unstamped(contacts[i]) = Unstamped(call.before[i])

\* C19: a successful merge of a record without a profile photo URL leaves the
\* stored profile image URL of the contact as it was.
C19_ProfileImageKeptWithoutPhoto ==
  (Merged /\ call.c.profile_pic_url = Undefined) =>
    After.profileImageUrl = Before.profileImageUrl


-----------------------------------------------------------------------------
(* Properties of a merge racing with another writer *)

\* C20: no step of a delivery changes a customFields key the integration does
\* not own: the user's note keeps the value most recently stored for it, also
\* when the user rewrote it between the delivery's match read and its write.
C20_UserKeysKeepLatestValue ==
  [][(procs' # procs) =>
       \A i \in DOMAIN contacts :
         contacts'[i].customFields.userNote = contacts[i].customFields.userNote]_vars


-----------------------------------------------------------------------------
(* Two concurrent deliveries on a table with the unique index *)

InitConcUnique ==
  /\ webhookSecret = Secret
  /\ uniqueUrn = TRUE
  /\ contacts \in ConcStores
  /\ activities = <<>>
  /\ clock = 0
  /\ last = NoRequest
  /\ twice = FALSE
  /\ call = NoCall
  /\ procs = [d \in Deliveries |-> Waiting]

SpecConcUnique == InitConcUnique /\ [][NextConc]_vars

\* the delivery was answered and none of its storage calls was made to throw
RanClean(d) ==
  /\ procs[d].pc = "done" /\ procs[d].status = 200
  /\ ~procs[d].lookupFailed /\ ~procs[d].writeFailed

\* C21: on a table with a unique index on organization and urn, two
\* concurrent deliveries of the same payload whose storage calls do not
\* otherwise fail end with exactly one contact of the organization holding
\* the urn, and a delivery whose create the index rejected is answered with a
\* skipped result carrying an error, returned by createContact, not thrown;
\* in no state do two contacts of an organization hold the same urn.
C21_UniqueIndexLeavesOneContact ==
  /\ C2_AtMostOneContactPerUrn
  /\ (RanClean("d1") /\ RanClean("d2") /\ procs["d1"].raw = procs["d2"].raw) =>
       /\ Cardinality(ContactsWithUrn(contacts,
                                      procs["d1"].raw.source.organization_id,
                                      procs["d1"].raw.connection.urn_id)) = 1
       /\ \A d \in Deliveries :
            /\ ~procs[d].caught
            /\ procs[d].result.action = "skipped" =>
                 (~procs[d].result.success /\ Truthy(procs[d].result.error))

\* both deliveries missed, one created and the other was rejected
C21_Witness ==
  /\ RanClean("d1") /\ RanClean("d2") /\ procs["d1"].raw = procs["d2"].raw
  /\ procs["d1"].match = MatchNew /\ procs["d2"].match = MatchNew
  /\ \E d \in Deliveries : procs[d].result.action = "created"
  /\ \E d \in Deliveries : procs[d].result.action = "skipped"

-----------------------------------------------------------------------------
(* The stored urn across pipeline runs *)

\* C22: once a contact stores a urn, no connection-accepted run replaces it
\* with another urn, whichever step matched the contact and whichever lookups
\* failed.
C22_StoredUrnNeverReplaced ==
  [][\A i \in DOMAIN contacts :
       Truthy(contacts[i].customFields.linkedinUrnId) =>
         contacts'[i].customFields.linkedinUrnId =
           contacts[i].customFields.linkedinUrnId]_vars
-----------------------------------------------------------------------------
(* Organizations are kept apart *)

\* C23: a connection-accepted run for an organization matches only contacts of
\* that organization and changes no contact of another one, also when another
\* organization holds a contact with the same urn, URL or email; what the run
\* creates belongs to the organization of the request.
C23_OtherOrganizationsUntouched ==
  [][(last'.op = "connection-accepted" /\ last'.status = 200) =>
       LET org == last'.raw.source.organization_id IN
       /\ last'.match.found =>
            contacts[last'.match.contact_id].organizationId = org
       /\ \A i \in DOMAIN contacts :
            contacts[i].organizationId # org => contacts'[i] = contacts[i]
       /\ \A i \in DOMAIN contacts' \ DOMAIN contacts :
            contacts'[i].organizationId = org]_vars

\* a run for one organization created a contact while another organization
\* holds a contact with the same urn, URL and email
C23_Witness ==
  /\ Served /\ ~last.match.found /\ last.result.action = "created"
  /\ \E i \in DOMAIN contacts :
       /\ contacts[i].organizationId # last.raw.source.organization_id
       /\ contacts[i].customFields.linkedinUrnId = last.raw.connection.urn_id
       /\ contacts[i].linkedinUrl = last.raw.connection.profile_url
       /\ contacts[i].email = last.raw.connection.email
  /\ contacts[last.result.contact_id].organizationId =
       last.raw.source.organization_id
-----------------------------------------------------------------------------
(* The email step and letter case *)

\* contacts of the organization whose email equals the inbound one up to case
EmailAlike ==
  IF ~Truthy(call.c.email) THEN {}
  ELSE {i \in DOMAIN contacts :
          /\ contacts[i].organizationId = call.organizationId
          /\ Truthy(contacts[i].email)
          /\ ToLowerCase(contacts[i].email) = ToLowerCase(call.c.email)}

\* C24: with every lookup succeeding and the URN and URL steps missing,
\* findMatch returns with kind EMAIL a contact of the organization whose stored
\* email equals the inbound email up to letter case, whenever there is one.
C24_EmailMatchIgnoresCase ==
  (/\ call.op = "findMatch" /\ call.fails = NoFails
   /\ UrnHits = {} /\ UrlHits = {} /\ EmailAlike # {})
  => ReturnedHit(EmailAlike, "EMAIL")
-----------------------------------------------------------------------------
(* The URL and name functions applied to inputs drawn at start *)

\* the profile URLs a record may carry
ProfileUrls ==
  {scheme \o www \o host \o path \o id \o rest :
     scheme \in {<<"https://">>, <<"http://">>, <<>>},
     www \in {<<"www.">>, <<>>},
     host \in {<<"linkedin.com">>, <<"LinkedIn.com">>, <<"example.com">>},
     path \in {<<"/in/">>, <<"/sales/lead/">>, <<"/sales/people/">>, <<"/company/">>},
     id \in {<<"ada">>, <<"ACwAAB">>},
     rest \in {<<>>, <<"/">>, <<"?trk=1">>}}
  \cup {Undefined, EmptyStr}

PublicIds == {Undefined, EmptyStr, <<"ada">>}

UrlInputs ==
  {[op |-> "<url>", profileUrl |-> u, publicId |-> p] :
     u \in ProfileUrls, p \in PublicIds}

FullNames ==
  { <<"Ada">>, <<"Ada", " ", "Lovelace">>, <<" ", "Ada", "  ">>,
    <<"Ada", "  ", "King", " ", "Lovelace">>, <<" ", "Ada", " ", "Lovelace", " ">>,
    EmptyStr }

NameInputs ==
  {[op |-> "<name>", fullName |-> n, firstName |-> f, lastName |-> l] :
     n \in FullNames, f \in {Undefined, EmptyStr, <<"Augusta">>},
     l \in {Undefined, EmptyStr, <<"King">>}}

\* the forms a user or an import may have stored the profile of ada in
StoredForms ==
  {scheme \o www \o <<"linkedin.com", "/in/", "ada">> \o rest :
     scheme \in {<<"https://">>, <<"http://">>},
     www \in {<<"www.">>, <<>>},
     rest \in {<<>>, <<"/">>}}
  \cup { <<"linkedin.com", "/in/", "ada">> }

\* one contact per stored form, in some order
RECURSIVE FormStore(_)
FormStore(forms) ==
  IF forms = {} THEN <<>>
  ELSE LET f == CHOOSE x \in forms : TRUE IN
       <<ManualContact(OrgX, <<"Ada">>, EmptyStr, Null, f, Null)>>
         \o FormStore(forms \ {f})

InitPure ==
  /\ webhookSecret = Secret
  /\ uniqueUrn = FALSE
  /\ contacts = FormStore(StoredForms)
  /\ activities = <<>>
  /\ clock = 0
  /\ last = NoRequest
  /\ twice = FALSE
  /\ call \in UrlInputs \cup NameInputs
  /\ procs = <<>>

\* ContactMatcherService.normalizeLinkedInUrl on the drawn input
NormalizeLinkedInUrlOnce ==
  /\ call.op = "<url>"
  /\ call' = [op |-> "normalizeLinkedInUrl", profileUrl |-> call.profileUrl,
              publicId |-> call.publicId,
              result |-> MatcherNormalizeLinkedInUrl(call.profileUrl, call.publicId)]
  /\ UNCHANGED <<webhookSecret, uniqueUrn, contacts, activities, clock, last, twice, procs>>

\* ContactMatcherService.normalizeLinkedInUrl on what it returned
NormalizeLinkedInUrlAgain ==
  /\ call.op = "normalizeLinkedInUrl" /\ Truthy(call.result)
  /\ call' = [op |-> "normalizeLinkedInUrl again", profileUrl |-> call.result,
              publicId |-> Undefined,
              result |-> MatcherNormalizeLinkedInUrl(call.result, Undefined)]
  /\ UNCHANGED <<webhookSecret, uniqueUrn, contacts, activities, clock, last, twice, procs>>

\* ContactMatcherService.matchByLinkedInUrl on the normalized URL: the
\* variations it asks for, what each normalizes to, and the rows that qualify
MatchByLinkedInUrlOnce ==
  /\ call.op = "normalizeLinkedInUrl" /\ Truthy(call.result)
  /\ call' = [op |-> "matchByLinkedInUrl", linkedinUrl |-> call.result,
              urlVariations |-> GetLinkedInUrlVariations(call.result),
              normalized |->
                {MatcherNormalizeLinkedInUrl(v, Undefined) :
                   v \in GetLinkedInUrlVariations(call.result)},
              hits |-> MatchByLinkedInUrl(contacts, OrgX, call.result, FALSE).hits]
  /\ UNCHANGED <<webhookSecret, uniqueUrn, contacts, activities, clock, last, twice, procs>>

\* ContactMergerService.parseName on the drawn input
ParseNameOnce ==
  /\ call.op = "<name>"
  /\ call' = [op |-> "parseName", fullName |-> call.fullName,
              firstName |-> call.firstName, lastName |-> call.lastName,
              result |-> ParseName(call.fullName, call.firstName, call.lastName)]
  /\ UNCHANGED <<webhookSecret, uniqueUrn, contacts, activities, clock, last, twice, procs>>

NextPure ==
  \/ NormalizeLinkedInUrlOnce
  \/ NormalizeLinkedInUrlAgain
  \/ MatchByLinkedInUrlOnce
  \/ ParseNameOnce

SpecPure == InitPure /\ [][NextPure]_vars

\* https://www.linkedin.com/in/{id}, the id free of / ? #
IsCanonical(url) ==
  /\ Len(url) > 4
  /\ SubSeq(url, 1, 4) = CanonicalPrefix
  /\ \A i \in 5..Len(url) : url[i] \notin DelimToks

\* C25: normalizing a canonical URL returns it unchanged, normalizing the
\* result of a normalization returns it unchanged, and every variation
\* generated for a canonical URL normalizes to that URL.
C25_NormalizationIdempotent ==
  /\ (/\ call.op \in {"normalizeLinkedInUrl", "normalizeLinkedInUrl again"}
      /\ ~Truthy(call.publicId) /\ IsCanonical(call.profileUrl))
     => call.result = call.profileUrl
  /\ call.op = "normalizeLinkedInUrl again" => call.result = call.profileUrl
  /\ (call.op = "matchByLinkedInUrl" /\ IsCanonical(call.linkedinUrl))
     => call.normalized = {call.linkedinUrl}

\* the variations of a canonical URL were generated and normalized
C25_Witness ==
  /\ call.op = "matchByLinkedInUrl" /\ IsCanonical(call.linkedinUrl)
  /\ Cardinality(call.urlVariations) > 1
  /\ call.normalized = {call.linkedinUrl}

\* scheme, host prefix and trailing slash crossed, and the scheme-less form
CrossProductForms(id) ==
  {scheme \o www \o <<"linkedin.com", "/in/">> \o id \o rest :
     scheme \in {<<"https://">>, <<"http://">>},
     www \in {<<"www.">>, <<>>},
     rest \in {<<>>, <<"/">>}}
  \cup { <<"linkedin.com", "/in/">> \o id }

\* C26: for a canonical URL the variations looked up are the eight forms of
\* scheme, host prefix and trailing slash and the scheme-less form, and every
\* contact of the organization stored with one of these forms qualifies for
\* the URL step.
C26_VariationsAreCrossProduct ==
  (call.op = "matchByLinkedInUrl" /\ IsCanonical(call.linkedinUrl)) =>
     LET forms == CrossProductForms(SubSeq(call.linkedinUrl, 5, Len(call.linkedinUrl)))
     IN /\ call.urlVariations = forms
        /\ \A i \in DOMAIN contacts :
              contacts[i].linkedinUrl \in forms => i \in call.hits

\* C27: parseName returns an explicit first name and an explicit last name
\* whenever the record supplies one of them; with neither it splits the
\* trimmed full name on whitespace, one token giving the first name and an
\* empty last name, several giving the first token and the rest joined by
\* single spaces.
C27_ExplicitNamesUsed ==
  call.op = "parseName" =>
     IF Truthy(call.firstName) \/ Truthy(call.lastName)
       THEN /\ Truthy(call.firstName) => call.result.firstName = call.firstName
            /\ Truthy(call.lastName) => call.result.lastName = call.lastName
     ELSE LET parts == SplitWs(Trim(call.fullName)) IN
          /\ call.result.firstName = parts[1]
          /\ call.result.lastName =
               (IF Len(parts) = 1 THEN EmptyStr ELSE JoinSpace(Tail(parts)))
-----------------------------------------------------------------------------
(* The URL a write stores and the URL the matcher looks for *)

\* C28: the linkedinUrl a successful createContact or mergeContact stores for
\* a record is the canonical URL findMatch computes for the record, so that
\* findMatch on the same record, its URN lookup failing, returns a
\* LINKEDIN_URL match for which the written contact qualifies.
C28_StoredUrlIsCanonical ==
  (/\ call.op = "findMatch again" /\ call.fails.urn
   /\ Truthy(MatcherNormalizeLinkedInUrl(call.c.profile_url, call.c.public_id)))
  => /\ contacts[call.result.contact_id].linkedinUrl =
          MatcherNormalizeLinkedInUrl(call.c.profile_url, call.c.public_id)
     /\ ReturnedHit(UrlHits, "LINKEDIN_URL")
     /\ call.result.contact_id \in UrlHits
-----------------------------------------------------------------------------
(* What one pipeline run writes *)

\* C29: every step of a request, a connection-accepted run or one turn of the
\* batch loop, removes no contact and writes at most one: it changes only the
\* contact findMatch returned, or adds one contact when findMatch found none,
\* never both, and leaves every other contact as it was.
C29_AtMostOneContactWrite ==
  [][LET changed == {i \in DOMAIN contacts \cap DOMAIN contacts' :
                       contacts'[i] # contacts[i]}
         added == Len(contacts') - Len(contacts)
     IN /\ added \in {0, 1}
        /\ Cardinality(changed) + added <= 1
        /\ (changed # {} \/ added = 1) =>
             LET m == IF last'.op = "batch-sync"
                        THEN last'.turns[Len(last'.turns)].match
                      ELSE last'.match
             IN /\ changed # {} => m.found /\ changed = {m.contact_id}
                /\ added = 1 => ~m.found]_vars

\* a batch updated one contact and created another in a store of several
C29_Witness ==
  /\ last.op = "batch-sync" /\ last.status = 200
  /\ \E i, j \in DOMAIN last.turns :
       /\ last.turns[i].result.action = "updated"
       /\ last.turns[j].result.action = "created"
  /\ Len(contacts) > 3
-----------------------------------------------------------------------------
(* The activity log *)

\* the contacts of the turns that logged an activity, in the order of the turns
RECURSIVE LoggedContacts(_)
LoggedContacts(turns) ==
  IF turns = <<>> THEN <<>>
  ELSE LET h == Head(turns) IN
       (IF ~h.caught /\ h.result.success /\ h.result.contact_id # 0
           /\ ~h.fails.activity
          THEN <<h.result.contact_id>> ELSE <<>>)
       \o LoggedContacts(Tail(turns))

\* C30: a step of a request appends at most one activity, at the end of the
\* log and only when its create or merge returned success with a contact id;
\* the activity names the organization of the request and that contact; a
\* skipped record appends none; and after every turn of a batch the log holds
\* the activities of the turns so far in the order of the records.
C30_ActivityAfterSuccessfulWrite ==
  [][LET n == Len(activities') - Len(activities)
         batch == last'.op = "batch-sync"
         ran == IF batch THEN last'.turns # <<>> /\ last'.turns # last.turns
                ELSE last'.status = 200
     IN /\ n \in {0, 1}
        /\ SubSeq(activities', 1, Len(activities)) = activities
        /\ n = 1 => ran
        /\ ran =>
             LET t == IF batch THEN last'.turns[Len(last'.turns)]
                      ELSE [result |-> last'.result]
                 org == IF batch THEN last'.body.organization_id
                        ELSE last'.raw.source.organization_id
                 a == activities'[Len(activities')]
             IN /\ n = 1 => /\ t.result.success /\ t.result.contact_id # 0
                            /\ a.organizationId = org
                            /\ a.contactId = t.result.contact_id
                            /\ contacts'[a.contactId].organizationId = org
                /\ t.result.action = "skipped" => n = 0
        /\ batch => [i \in DOMAIN activities' |-> activities'[i].contactId]
                      = LoggedContacts(last'.turns)]_vars

\* a batch of two records logged one activity for each, in their order
C30_Witness ==
  /\ last.op = "batch-sync" /\ last.status = 200
  /\ Len(last.turns) = 2 /\ Len(activities) = 2
  /\ activities[1].contactId = last.turns[1].result.contact_id
  /\ activities[2].contactId = last.turns[2].result.contact_id
  /\ activities[1].contactId # activities[2].contactId
====
